---- MODULE Spec2Model ----
(***************************************************************************)
(* A model of custom-gherkin-utils: the Row Expander                       *)
(* (expandScenarioOutlineRows, in src/featureSplitter.ts and in            *)
(* src/helpers/gherkinUtils.ts), the Placeholder Substituter               *)
(* (processScenarioOutline, src/featureParser.ts) and the in-place         *)
(* transform that drives it (processFeatureFiles).                         *)
(*                                                                         *)
(* A text is a sequence of symbols (one-character strings, or a longer run *)
(* of ordinary characters kept as one symbol).  An optional field of the   *)
(* Gherkin messages is a record with a "defined" flag.  Every JavaScript   *)
(* object a claim speaks about carries its identity in an "obj" field, so  *)
(* that two structures holding the same object can be told from two        *)
(* structures holding equal copies.                                        *)
(***************************************************************************)
EXTENDS Integers, Sequences, FiniteSets, TLC

VARIABLES
  pc,          \* Row Expander: "parsed" | "expanded" | "mutated"
  scenario,    \* the Scenario object handed to the Row Expander, as it is now
  parsed,      \* the same Scenario as the parser produced it (never written)
  impl,        \* which expandScenarioOutlineRows ran: "splitter" | "utils" | "none"
  expansions,  \* the sequence the Row Expander returned
  snapshot,    \* the returned sequence as it was on return
  touched,     \* index of the variant a write went through, 0 before any write
  spc,         \* Placeholder Substituter: "off" | "ready" | "substituted"
  outline,     \* the Scenario handed to the Substituter
  route,       \* "direct", or the Row Expander the Scenario went through first
  result,      \* what processScenarioOutline returned: <<>> for null, or <<scenario>>
  files,       \* processFeatureFiles: what the parser yields for each file of the batch
  disk,        \* per file: <<>> while its text is untouched, <<content>> once rewritten
  cursor,      \* index of the file the loop is at
  running,     \* FALSE once an exception has left the loop
  replaced,    \* replacePlaceholders alone: the text, as it is after `passes` passes
  mapping,     \* the placeholderMap of every pass
  once,        \* the text as it was after the first pass
  passes,      \* number of passes made
  document,    \* collectScenarioEntries alone: the Feature handed to it
  entries,     \* <<>> before the call, <<the entries returned>> after it
  cellValue,   \* escapeTableCell alone: the cell value handed to it
  cellText,    \* <<>> before the call, <<the text returned>> after it
  sources,     \* splitScenarioOutlinesByRows: the files of the batch, parsed
  tagExpression, \* <<>> when none was given, <<expression>> otherwise
  copy,        \* which copy of the splitter runs: "featureSplitter" | "featureParser"
  language,    \* <<>> when none was given, <<language>> otherwise
  position,    \* index of the file the loop is at
  decisions,   \* one record per candidate met so far, in the order met
  outputs,     \* the files written so far, in the order written
  thrownAt     \* <<>>, or <<index of the file at which the loop threw>>

expanderVars == <<pc, scenario, parsed, impl, expansions, snapshot, touched>>

substituterVars == <<spc, outline, route, result>>

batchVars == <<files, disk, cursor, running>>

replaceVars == <<replaced, mapping, once, passes>>

collectVars == <<document, entries>>

escapeVars == <<cellValue, cellText>>

splitVars == <<sources, tagExpression, copy, language, position, decisions, outputs, thrownAt>>

restVars == <<replaceVars, collectVars, escapeVars, splitVars>>

vars == <<expanderVars, substituterVars, batchVars, restVars>>

-----------------------------------------------------------------------------
(* Bounds of the Row Expander's inputs. *)
MaxBlocks == 2
MaxRows == 2

(* Bound of the texts the Substituter is run on, in pieces: a piece is one  *)
(* symbol or one whole placeholder.                                        *)
MaxPieces == 3

(* Bound of the number of files in a batch. *)
MaxFiles == 2

(* Bound of the number of passes of replacePlaceholders over one text. *)
MaxPasses == 2

(* Bound of the number of children of a Feature handed to                  *)
(* collectScenarioEntries.                                                 *)
MaxChildren == 3

(* Bound of the length of a table cell value handed to escapeTableCell. *)
MaxCellLen == 3

-----------------------------------------------------------------------------
(* Sequence helpers. *)

Range(s) == {s[i] : i \in DOMAIN s}

RECURSIVE SumSeq(_)
SumSeq(s) == IF s = <<>> THEN 0 ELSE Head(s) + SumSeq(Tail(s))

RECURSIVE Flatten(_)
Flatten(ss) == IF ss = <<>> THEN <<>> ELSE Head(ss) \o Flatten(Tail(ss))

SeqsUpTo(S, n) == UNION {[1..m -> S] : m \in 0..n}

-----------------------------------------------------------------------------
(* Objects.  owner 0 is the parser; owner k >= 1 is the k-th call of       *)
(* deepCloneScenario, whose JSON round trip allocates every node afresh.   *)

Obj(owner, kind, i, j) == [owner |-> owner, kind |-> kind, i |-> i, j |-> j]

NoObj == Obj(0, "undefined", 0, 0)

Sym(prefix, i, j) == prefix \o ToString(i) \o ToString(j)

Tag(name, i, j) == [obj |-> Obj(0, "tag", i, j), name |-> name]

TableRow(cells, i, j) == [obj |-> Obj(0, "row", i, j), cells |-> cells]

Undefined == [defined |-> FALSE, obj |-> NoObj, cells |-> <<>>, rows |-> <<>>]

TableHeader(cells, i) ==
  [defined |-> TRUE, obj |-> Obj(0, "header", i, 0), cells |-> cells, rows |-> <<>>]

TableBody(rows) == [defined |-> TRUE, obj |-> NoObj, cells |-> <<>>, rows |-> rows]

(* The i-th Examples block of a parsed Scenario: the parser's IdGenerator   *)
(* gives every block an id of its own.                                     *)
Examples(i, tags, header, body) ==
  [obj |-> Obj(0, "examples", i, 0),
   id |-> Sym("ex", i, 0),
   name |-> Sym("examples", i, 0),
   description |-> Sym("about", i, 0),
   tags |-> tags,
   tableHeader |-> header,
   tableBody |-> body]

NoDocString == [defined |-> FALSE, obj |-> NoObj, delimiter |-> "", content |-> <<>>]

DocString(delimiter, content, i) ==
  [defined |-> TRUE, obj |-> Obj(0, "docString", i, 0),
   delimiter |-> delimiter, content |-> content]

Step(keyword, text, docString, dataTable, i) ==
  [obj |-> Obj(0, "step", i, 0), keyword |-> keyword, text |-> text,
   docString |-> docString, dataTable |-> dataTable]

Scenario(id, name, tags, steps, examples) ==
  [obj |-> Obj(0, "scenario", 0, 0),
   id |-> id,
   keyword |-> IF examples = <<>> THEN "Scenario" ELSE "Scenario Outline",
   name |-> name,
   tags |-> tags,
   steps |-> steps,
   examples |-> examples]

-----------------------------------------------------------------------------
(* The Scenarios the Row Expander is run on: up to MaxBlocks Examples      *)
(* blocks, each with or without a tag, with a body that is missing or      *)
(* holds 0..MaxRows rows.  Block i has header <<"h", "k">>; its row j      *)
(* holds cells that name the block and the row, so every row differs.      *)

ExpanderRow(i, j) == TableRow(<< <<Sym("v", i, j)>>, <<Sym("w", i, j)>> >>, i, j)

ExpanderBody(i, n) == TableBody([j \in 1..n |-> ExpanderRow(i, j)])

ExpanderBodies(i) == {Undefined} \cup {ExpanderBody(i, n) : n \in 0..MaxRows}

ExpanderTags(i) == {<<>>, <<Tag(Sym("@e", i, 0), i, 1)>>}

ExpanderBlocks(i) ==
  {Examples(i, t, TableHeader(<< <<"h">>, <<"k">> >>, i), b) :
     t \in ExpanderTags(i), b \in ExpanderBodies(i)}

ExpanderExamples ==
  UNION {{e \in [1..m -> UNION {ExpanderBlocks(i) : i \in 1..m}] :
            \A i \in 1..m : e[i] \in ExpanderBlocks(i)} : m \in 0..MaxBlocks}

ExpanderSteps ==
  << Step("Given ", <<"on ", "<", "h", ">">>, NoDocString, Undefined, 1) >>

ExpanderScenarios ==
  {Scenario("sc", <<"visit ", "<", "h", ">">>, <<Tag("@s", 0, 1)>>, ExpanderSteps, e) :
     e \in ExpanderExamples}

-----------------------------------------------------------------------------
(* Reading a Scenario. *)

BodyRows(ex) == IF ex.tableBody.defined THEN ex.tableBody.rows ELSE <<>>

(* src/featureSplitter.ts:215-218: totalRows += ex.tableBody?.length ?? 0 *)
totalRows(s) == SumSeq([i \in DOMAIN s.examples |-> Len(BodyRows(s.examples[i]))])

-----------------------------------------------------------------------------
(* deepCloneScenario, src/featureSplitter.ts:287-289 and                   *)
(* src/helpers/gherkinUtils.ts:105-107: JSON.parse(JSON.stringify(s)).     *)
(* Every node of the copy is a new object (owner k); the data is kept, and *)
(* a field that is undefined stays undefined.                              *)

Fresh(o, k) == IF o = NoObj THEN NoObj ELSE [o EXCEPT !.owner = k]

CloneTags(tags, k) ==
  [t \in DOMAIN tags |-> [tags[t] EXCEPT !.obj = Fresh(@, k)]]

CloneTable(table, k) ==
  [table EXCEPT
     !.obj = Fresh(@, k),
     !.rows = [r \in DOMAIN @ |-> [@[r] EXCEPT !.obj = Fresh(@, k)]]]

CloneStep(step, k) ==
  [step EXCEPT
     !.obj = Fresh(@, k),
     !.docString = [@ EXCEPT !.obj = Fresh(@, k)],
     !.dataTable = CloneTable(@, k)]

CloneExamples(ex, k) ==
  [ex EXCEPT
     !.obj = Fresh(@, k),
     !.tags = CloneTags(@, k),
     !.tableHeader = CloneTable(@, k),
     !.tableBody = CloneTable(@, k)]

deepCloneScenario(s, k) ==
  [s EXCEPT
     !.obj = Fresh(@, k),
     !.tags = CloneTags(@, k),
     !.steps = [i \in DOMAIN @ |-> CloneStep(@[i], k)],
     !.examples = [i \in DOMAIN @ |-> CloneExamples(@[i], k)]]

-----------------------------------------------------------------------------
(* The Row Expander of src/featureSplitter.ts.                             *)
(* rowOpt is the row parameter: <<row>>, or <<>> for null.                 *)

(* src/featureSplitter.ts:245-285.  The blocks of the deep copy are mapped *)
(* to new objects ({...exBlock, tableBody}); the row put into the target   *)
(* block is the row object that was passed in.                             *)
cloneScenarioWithSingleRow(original, targetEx, rowOpt, k) ==
  LET scenarioCopy == deepCloneScenario(original, k)
  IN  [scenarioCopy EXCEPT
         !.examples =
           [i \in DOMAIN @ |->
              IF @[i].id = targetEx.id
                THEN [@[i] EXCEPT !.obj = Obj(k, "examples spread", i, 0),
                                  !.tableBody = TableBody(rowOpt)]
                ELSE [@[i] EXCEPT !.obj = Obj(k, "examples spread", i, 0),
                                  !.tableBody = TableBody(<<>>)]]]

(* src/featureSplitter.ts:227-235, the loop over the Examples blocks from  *)
(* block i on; k is the number of clones made so far.                      *)
RECURSIVE expandBlocks(_, _, _)
expandBlocks(s, i, k) ==
  IF i > Len(s.examples) THEN <<>>
  ELSE LET ex == s.examples[i]
           rows == BodyRows(ex)
       IN  IF Len(rows) = 0
             THEN <<cloneScenarioWithSingleRow(s, ex, <<>>, k + 1)>>
                    \o expandBlocks(s, i + 1, k + 1)
             ELSE [j \in 1..Len(rows) |->
                     cloneScenarioWithSingleRow(s, ex, <<rows[j]>>, k + j)]
                    \o expandBlocks(s, i + 1, k + Len(rows))

(* src/featureSplitter.ts:209-238 *)
expandScenarioOutlineRows(s) ==
  IF Len(s.examples) = 0 THEN <<s>>
  ELSE IF totalRows(s) <= 1 THEN <<s>>
  ELSE expandBlocks(s, 1, 0)

-----------------------------------------------------------------------------
(* The Row Expander of src/helpers/gherkinUtils.ts.                        *)

(* A departure from cloneScenarioWithSingleRowUtils that loses the row: a  *)
(* property of the expansion that it satisfies too says nothing of the row.*)
cloneScenarioWithSingleRowUtilsLosingRow(original, targetEx, rowOpt, k) ==
  LET scenarioCopy == deepCloneScenario(original, k)
      kept == SelectSeq(original.examples, LAMBDA exBlock : exBlock.id = targetEx.id)
  IN  [scenarioCopy EXCEPT
         !.examples =
           [i \in DOMAIN kept |->
              [kept[i] EXCEPT !.obj = Obj(k, "examples spread", i, 0),
                              !.tableBody = TableBody(<<>>)]]]

(* A departure from cloneScenarioWithSingleRowUtils that keeps the other   *)
(* blocks, emptied, with their tags.                                       *)
cloneScenarioWithSingleRowUtilsKeepingBlocks(original, targetEx, rowOpt, k) ==
  LET scenarioCopy == deepCloneScenario(original, k)
  IN  [scenarioCopy EXCEPT
         !.examples =
           [i \in DOMAIN original.examples |->
              [original.examples[i] EXCEPT
                 !.obj = Obj(k, "examples spread", i, 0),
                 !.tableBody = IF original.examples[i].id = targetEx.id
                                 THEN TableBody(rowOpt) ELSE TableBody(<<>>)]]]

(* src/helpers/gherkinUtils.ts:84-100.  The Examples of the copy are       *)
(* rebuilt from original.examples: only the target block is kept, as a new *)
(* object whose other fields are the original block's own objects.         *)
cloneScenarioWithSingleRowUtils(original, targetEx, rowOpt, k) ==
  LET scenarioCopy == deepCloneScenario(original, k)
      kept == SelectSeq(original.examples, LAMBDA exBlock : exBlock.id = targetEx.id)
  IN  [scenarioCopy EXCEPT
         !.examples =
           [i \in DOMAIN kept |->
              [kept[i] EXCEPT !.obj = Obj(k, "examples spread", i, 0),
                              !.tableBody = TableBody(rowOpt)]]]

(* src/helpers/gherkinUtils.ts:70-74 *)
RECURSIVE expandBlocksUtils(_, _, _)
expandBlocksUtils(s, i, k) ==
  IF i > Len(s.examples) THEN <<>>
  ELSE LET ex == s.examples[i]
           rows == BodyRows(ex)
       IN  [j \in 1..Len(rows) |->
              cloneScenarioWithSingleRowUtils(s, ex, <<rows[j]>>, k + j)]
             \o expandBlocksUtils(s, i + 1, k + Len(rows))

(* src/helpers/gherkinUtils.ts:62-77 *)
expandScenarioOutlineRowsUtils(s) ==
  IF Len(s.examples) = 0 THEN <<s>>
  ELSE expandBlocksUtils(s, 1, 0)

-----------------------------------------------------------------------------
(* Object identity: the objects a Scenario value is made of, and a write   *)
(* through one of them.  A write to an object changes every structure that *)
(* holds that object, and no other.                                        *)

TableObjs(table) ==
  IF table.defined
    THEN ({table.obj} \ {NoObj}) \cup {table.rows[r].obj : r \in DOMAIN table.rows}
    ELSE {}

ExamplesObjs(ex) ==
  {ex.obj} \cup {ex.tags[t].obj : t \in DOMAIN ex.tags}
    \cup TableObjs(ex.tableHeader) \cup TableObjs(ex.tableBody)

StepObjs(step) ==
  {step.obj} \cup (IF step.docString.defined THEN {step.docString.obj} ELSE {})
    \cup TableObjs(step.dataTable)

Objs(s) ==
  {s.obj} \cup {s.tags[t].obj : t \in DOMAIN s.tags}
    \cup UNION {StepObjs(s.steps[i]) : i \in DOMAIN s.steps}
    \cup UNION {ExamplesObjs(s.examples[i]) : i \in DOMAIN s.examples}

Written == <<"written">>

WriteTags(tags, o) ==
  [t \in DOMAIN tags |->
     IF tags[t].obj = o THEN [tags[t] EXCEPT !.name = "@written"] ELSE tags[t]]

WriteTable(table, o) ==
  IF ~table.defined THEN table
  ELSE [table EXCEPT
          !.cells = IF table.obj = o THEN <<Written>> ELSE @,
          !.rows = [r \in DOMAIN @ |->
                      IF @[r].obj = o THEN [@[r] EXCEPT !.cells = <<Written>>]
                      ELSE @[r]]]

WriteStep(step, o) ==
  [step EXCEPT
     !.text = IF step.obj = o THEN Written ELSE @,
     !.docString = IF @.defined /\ @.obj = o THEN [@ EXCEPT !.content = Written] ELSE @,
     !.dataTable = WriteTable(@, o)]

WriteExamples(ex, o) ==
  [ex EXCEPT
     !.name = IF ex.obj = o THEN "written" ELSE @,
     !.tags = WriteTags(@, o),
     !.tableHeader = WriteTable(@, o),
     !.tableBody = WriteTable(@, o)]

Write(s, o) ==
  [s EXCEPT
     !.name = IF s.obj = o THEN Written ELSE @,
     !.tags = WriteTags(@, o),
     !.steps = [i \in DOMAIN @ |-> WriteStep(@[i], o)],
     !.examples = [i \in DOMAIN @ |-> WriteExamples(@[i], o)]]

-----------------------------------------------------------------------------------------------------------------------------------------------------
(* The Placeholder Substituter, src/featureParser.ts.                      *)

(* The symbols of the texts: the two brackets, the header names "h" and    *)
(* "k", and the run "constructor", a name every JavaScript object inherits *)
(* from Object.prototype.                                                  *)
(* A text is a sequence of symbols.  The texts the Substituter is run on   *)
(* are made of up to MaxPieces pieces: a bracket, a letter, a placeholder  *)
(* of a header name, a placeholder of a name every object literal inherits.*)
Pieces ==
  {<<"<">>, <<">">>, <<"h">>, <<"x">>,
   <<"<", "h", ">">>, <<"<", "k", ">">>, <<"<", "constructor", ">">>}

Texts == {Flatten(pieces) : pieces \in SeqsUpTo(Pieces, MaxPieces)}

(* The index of the first ">" of text after position p, 0 when there is none. *)
NextClose(text, p) ==
  IF \E q \in (p + 1)..Len(text) : text[q] = ">"
    THEN CHOOSE q \in (p + 1)..Len(text) :
           text[q] = ">" /\ \A r \in (p + 1)..(q - 1) : text[r] # ">"
    ELSE 0

(* What an object literal {} answers for a key it was never given: the     *)
(* property inherited from Object.prototype, or undefined (<<>> here, the  *)
(* value wrapped in a sequence otherwise).                                 *)
InheritedProperty(name) ==
  IF name = <<"constructor">> THEN << <<"function Object() { [native code] }">> >>
  ELSE <<>>

(* placeholderMap[placeholder], src/featureParser.ts:26 *)
GetProperty(placeholderMap, name) ==
  IF name \in DOMAIN placeholderMap THEN <<placeholderMap[name]>>
  ELSE InheritedProperty(name)

(* src/featureParser.ts:24-28: text.replace(/<([^>]+)>/g, ...), the scan   *)
(* from position p on.  A match starts at a "<", runs over one or more     *)
(* symbols other than ">" and ends at the next ">"; the scan goes on after *)
(* the match, and one symbol further where no match starts.                *)
RECURSIVE replaceFrom(_, _, _)
replaceFrom(text, placeholderMap, p) ==
  IF p > Len(text) THEN <<>>
  ELSE LET q == NextClose(text, p)
       IN  IF text[p] = "<" /\ q >= p + 2
             THEN LET placeholder == SubSeq(text, p + 1, q - 1)
                      found == GetProperty(placeholderMap, placeholder)
                  IN  (IF found # <<>> THEN found[1]
                       ELSE <<"<">> \o placeholder \o <<">">>)
                        \o replaceFrom(text, placeholderMap, q + 1)
             ELSE <<text[p]>> \o replaceFrom(text, placeholderMap, p + 1)

(* A departure from replacePlaceholders: the replace without its g flag,   *)
(* which stops after the first match.                                      *)
RECURSIVE replaceFirstFrom(_, _, _)
replaceFirstFrom(text, placeholderMap, p) ==
  IF p > Len(text) THEN <<>>
  ELSE LET q == NextClose(text, p)
       IN  IF text[p] = "<" /\ q >= p + 2
             THEN LET placeholder == SubSeq(text, p + 1, q - 1)
                      found == GetProperty(placeholderMap, placeholder)
                  IN  (IF found # <<>> THEN found[1]
                       ELSE <<"<">> \o placeholder \o <<">">>)
                        \o SubSeq(text, q + 1, Len(text))
             ELSE <<text[p]>> \o replaceFirstFrom(text, placeholderMap, p + 1)

replacePlaceholdersFirstOnly(text, placeholderMap) == replaceFirstFrom(text, placeholderMap, 1)

replacePlaceholders(text, placeholderMap) == replaceFrom(text, placeholderMap, 1)

(* src/featureParser.ts:43-48: the forEach over the header cells up to     *)
(* cell i; a later cell of the same name overwrites the earlier entry.     *)
RECURSIVE buildPlaceholderMap(_, _, _)
buildPlaceholderMap(headerCells, rowCells, i) ==
  IF i = 0 THEN <<>>
  ELSE LET before == buildPlaceholderMap(headerCells, rowCells, i - 1)
           value == IF i <= Len(rowCells) THEN rowCells[i] ELSE <<>>
       IN  [name \in (DOMAIN before) \cup {headerCells[i]} |->
              IF name = headerCells[i] THEN value ELSE before[name]]

(* A departure from substituteStep that hands the DocString on as it is. *)
substituteStepKeepingDocString(step, placeholderMap, i) ==
  [step EXCEPT
     !.obj = Obj(1, "step spread", i, 0),
     !.text = replacePlaceholders(@, placeholderMap)]

(* src/featureParser.ts:57-64 *)
substituteStep(step, placeholderMap, i) ==
  [step EXCEPT
     !.obj = Obj(1, "step spread", i, 0),
     !.text = replacePlaceholders(@, placeholderMap),
     !.docString =
       IF @.defined
         THEN [@ EXCEPT !.obj = Obj(1, "docString spread", i, 0),
                        !.content = replacePlaceholders(@, placeholderMap)]
         ELSE NoDocString]

(* A departure from processScenarioOutline that adds the tags of the      *)
(* consumed Examples block to the Scenario's.                              *)
processScenarioOutlinePromotingTags(s, newId) ==
  IF Len(s.examples) = 0 THEN <<>>
  ELSE LET example == s.examples[1]
       IN  IF \/ ~example.tableHeader.defined
              \/ ~example.tableBody.defined
              \/ Len(example.tableBody.rows) = 0
             THEN <<>>
             ELSE LET placeholderMap ==
                        buildPlaceholderMap(example.tableHeader.cells,
                                            example.tableBody.rows[1].cells,
                                            Len(example.tableHeader.cells))
                  IN  << [s EXCEPT
                            !.obj = Obj(1, "scenario spread", 0, 0),
                            !.examples = <<>>,
                            !.name = replacePlaceholders(@, placeholderMap),
                            !.steps = [i \in DOMAIN @ |->
                                         substituteStep(@[i], placeholderMap, i)],
                            !.id = newId,
                            !.tags = @ \o example.tags] >>

(* A departure from processScenarioOutline that lets an Examples block     *)
(* with an empty body through, every header name mapped to the empty text. *)
processScenarioOutlineTakingEmptyBody(s, newId) ==
  IF Len(s.examples) = 0 THEN <<>>
  ELSE LET example == s.examples[1]
       IN  IF \/ ~example.tableHeader.defined
              \/ ~example.tableBody.defined
             THEN <<>>
             ELSE LET placeholderMap ==
                        buildPlaceholderMap(
                          example.tableHeader.cells,
                          IF Len(example.tableBody.rows) = 0 THEN <<>>
                          ELSE example.tableBody.rows[1].cells,
                          Len(example.tableHeader.cells))
                  IN  << [s EXCEPT
                            !.obj = Obj(1, "scenario spread", 0, 0),
                            !.examples = <<>>,
                            !.name = replacePlaceholders(@, placeholderMap),
                            !.steps = [i \in DOMAIN @ |->
                                         substituteStep(@[i], placeholderMap, i)],
                            !.id = newId] >>

(* src/featureParser.ts:33-68.  newId is the id IdGenerator.uuid() hands out. *)
processScenarioOutline(s, newId) ==
  IF Len(s.examples) = 0 THEN <<>>
  ELSE LET example == s.examples[1]
       IN  IF \/ ~example.tableHeader.defined
              \/ ~example.tableBody.defined
              \/ Len(example.tableBody.rows) = 0
             THEN <<>>
             ELSE LET placeholderMap ==
                        buildPlaceholderMap(example.tableHeader.cells,
                                            example.tableBody.rows[1].cells,
                                            Len(example.tableHeader.cells))
                  IN  << [s EXCEPT
                            !.obj = Obj(1, "scenario spread", 0, 0),
                            !.examples = <<>>,
                            !.name = replacePlaceholders(@, placeholderMap),
                            !.steps = [i \in DOMAIN @ |->
                                         substituteStep(@[i], placeholderMap, i)],
                            !.id = newId] >>

-----
(* Values: a structure without the identities of its objects, as a         *)
(* serializer or a deep comparison sees it.                                *)

TagNames(tags) == [t \in DOMAIN tags |-> tags[t].name]

TableValue(table) ==
  [defined |-> table.defined, cells |-> table.cells,
   rows |-> [r \in DOMAIN table.rows |-> table.rows[r].cells]]

ExamplesValue(ex) ==
  [id |-> ex.id, name |-> ex.name, description |-> ex.description,
   tags |-> TagNames(ex.tags),
   tableHeader |-> TableValue(ex.tableHeader),
   tableBody |-> TableValue(ex.tableBody)]

(* An Examples block without its body: what a variant must keep of every block. *)
ExamplesFrame(ex) ==
  [id |-> ex.id, name |-> ex.name, description |-> ex.description,
   tags |-> TagNames(ex.tags),
   tableHeader |-> TableValue(ex.tableHeader)]

StepValue(step) ==
  [keyword |-> step.keyword, text |-> step.text,
   docString |-> [defined |-> step.docString.defined,
                  delimiter |-> step.docString.delimiter,
                  content |-> step.docString.content],
   dataTable |-> TableValue(step.dataTable)]

ScenarioValue(s) ==
  [id |-> s.id, keyword |-> s.keyword, name |-> s.name,
   tags |-> TagNames(s.tags),
   steps |-> [i \in DOMAIN s.steps |-> StepValue(s.steps[i])],
   examples |-> [i \in DOMAIN s.examples |-> ExamplesValue(s.examples[i])]]

(* The body rows of a Scenario in document order, each with the id of its block. *)
RowsInOrder(s) ==
  Flatten([i \in DOMAIN s.examples |->
             [j \in DOMAIN BodyRows(s.examples[i]) |->
                [block |-> s.examples[i].id,
                 cells |-> BodyRows(s.examples[i])[j].cells]]])

MultiRow(s) == Len(s.examples) > 0 /\ totalRows(s) > 1

-----------------------------------------------------------------------------
(* The Scenarios the Substituter is run on.  One step with a DocString and *)
(* a second step with a DataTable; a text of up to MaxPieces pieces is     *)
(* put in one of the four places, and the other places hold a text with a  *)
(* placeholder of their own.                                               *)

Places == {"name", "text", "docString", "dataTable"}

SubstituterSteps(text, place) ==
  << Step("Given ",
          IF place = "text" THEN text ELSE <<"<", "h", ">", "s">>,
          DocString("quotes",
                    IF place = "docString" THEN text ELSE <<"d", "<", "k", ">">>, 1),
          Undefined, 1),
     Step("Then ", <<"t">>, NoDocString,
          TableBody(<< TableRow(<< IF place = "dataTable" THEN text
                                   ELSE <<"<", "h", ">">>, <<"c">> >>, 2, 1) >>), 2) >>

SubstituterScenario(text, place, tags, examples) ==
  Scenario("sc",
           IF place = "name" THEN text ELSE <<"n", "<", "h", ">", "<", "k", ">">>,
           tags, SubstituterSteps(text, place), examples)

(* Header rows: one name, two names, the same name twice. *)
SubstituterHeaders ==
  {TableHeader(cells, 1) : cells \in {<< <<"h">> >>, << <<"h">>, <<"k">> >>,
                                      << <<"h">>, <<"h">> >>}}

OneRowBody(cells) == TableBody(<<TableRow(cells, 1, 1)>>)

SubstituterBodies ==
  {Undefined, TableBody(<<>>), OneRowBody(<< <<"a">>, <<"b">> >>),
   OneRowBody(<< <<"a">> >>),
   TableBody(<<TableRow(<< <<"a">>, <<"b">> >>, 1, 1),
               TableRow(<< <<"b">>, <<"a">> >>, 1, 2)>>)}

ExamplesTags == {<<>>, <<Tag("@e", 1, 1)>>, <<Tag("@s", 1, 1), Tag("@e", 1, 2)>>}

ScenarioTags == {<<>>, <<Tag("@s", 0, 1)>>}

SecondBlock ==
  Examples(2, <<Tag("@f", 2, 1)>>, TableHeader(<< <<"h">> >>, 2),
           TableBody(<<TableRow(<< <<"z">> >>, 2, 1)>>))

OneBlock(headerCells, rowCells) ==
  <<Examples(1, <<Tag("@e", 1, 1)>>, TableHeader(headerCells, 1), OneRowBody(rowCells))>>

(* One well-formed block of one row, to go with every text: a cell for     *)
(* every header cell; a cell too few; a cell that itself holds a           *)
(* placeholder; an empty cell; the same header name twice.                 *)
OneRowExamples ==
  {OneBlock(<< <<"h">> >>, << <<"a">> >>),
   OneBlock(<< <<"h">>, <<"k">> >>, << <<"a">> >>),
   OneBlock(<< <<"h">>, <<"k">> >>, << <<"<", "k", ">">>, <<"b">> >>),
   OneBlock(<< <<"h">>, <<"k">> >>, << <<>>, <<"b">> >>),
   OneBlock(<< <<"h">>, <<"h">> >>, << <<"a">>, <<"b">> >>)}

(* Zero, one or two blocks, the first well-formed or not. *)
AnyExamples ==
  {<<>>}
    \cup {<<Examples(1, t, h, b)>> :
            t \in ExamplesTags, h \in SubstituterHeaders \cup {Undefined},
            b \in SubstituterBodies}
    \cup {<<Examples(1, <<>>, h, b), SecondBlock>> :
            h \in SubstituterHeaders \cup {Undefined}, b \in SubstituterBodies}

SubstituterScenarios ==
  {SubstituterScenario(text, place, <<Tag("@s", 0, 1)>>, e) :
     text \in Texts, place \in Places, e \in OneRowExamples}
    \cup {SubstituterScenario(<<"<", "h", ">">>, "name", t, e) :
            t \in ScenarioTags, e \in AnyExamples}

(* The ids IdGenerator.uuid() may hand out: none is an id of the input. *)
NewIds == {"uuid1", "uuid2"}

-----------------------------------------------------------------------------------------------------------------------------------------------------
(* The in-place transform, src/featureParser.ts:73-211.                    *)

Background(name, steps) ==
  [kind |-> "background", name |-> name, tags |-> <<>>, steps |-> steps,
   scenario |-> <<>>, children |-> <<>>]

ScenarioChild(s) ==
  [kind |-> "scenario", name |-> "", tags |-> <<>>, steps |-> <<>>,
   scenario |-> <<s>>, children |-> <<>>]

Rule(name, tags, children) ==
  [kind |-> "rule", name |-> name, tags |-> tags, steps |-> <<>>,
   scenario |-> <<>>, children |-> children]

Feature(name, tags, children) == [name |-> name, tags |-> tags, children |-> children]

(* What GherkinStreams yields for a file: a gherkinDocument with a         *)
(* feature, or none (a parse error, an empty file).                        *)
Parsed(feature) == [feature |-> <<feature>>]

Unparsed == [feature |-> <<>>]

(* src/featureParser.ts:198-204: the cells as they are, joined by " | ". *)
formatDataTable(dataTable) ==
  [r \in DOMAIN dataTable.rows |-> dataTable.rows[r].cells]

(* src/featureParser.ts:209-211: always between triple quotes. *)
formatDocString(docString) == [delimiter |-> "quotes", content |-> docString.content]

(* src/featureParser.ts:144-193: the text of the rewritten file, as the    *)
(* blocks it is made of.  No Rule and no description is written; the       *)
(* Scenario's title line always starts with "Scenario:".                   *)
formatFeatureFile(feature, featureTags, background, s) ==
  [featureTags |-> TagNames(featureTags),
   feature |-> feature.name,
   background |-> [b \in DOMAIN background |->
                     [i \in DOMAIN background[b].steps |->
                        [keyword |-> background[b].steps[i].keyword,
                         text |-> background[b].steps[i].text]]],
   scenarioTags |-> TagNames(s.tags),
   keyword |-> "Scenario",
   name |-> s.name,
   steps |-> [i \in DOMAIN s.steps |->
                [keyword |-> s.steps[i].keyword,
                 text |-> s.steps[i].text,
                 dataTable |-> IF s.steps[i].dataTable.defined
                                 THEN <<formatDataTable(s.steps[i].dataTable)>>
                                 ELSE <<>>,
                 docString |-> IF s.steps[i].docString.defined
                                 THEN <<formatDocString(s.steps[i].docString)>>
                                 ELSE <<>>]]]

(* src/featureParser.ts:96-103: the last top-level Background (<<>> when   *)
(* there is none) and the first top-level Scenario.                        *)
lastBackground(feature) ==
  LET at == {i \in DOMAIN feature.children : feature.children[i].kind = "background"}
  IN  IF at = {} THEN <<>>
      ELSE <<feature.children[CHOOSE i \in at : \A j \in at : j <= i]>>

firstScenario(feature) ==
  LET at == {i \in DOMAIN feature.children : feature.children[i].kind = "scenario"}
  IN  IF at = {} THEN <<>>
      ELSE feature.children[CHOOSE i \in at : \A j \in at : i <= j].scenario

(* src/featureParser.ts:88-133, one file: what is written to it, <<>> when *)
(* nothing is.                                                             *)
rewrittenContent(file, newId) ==
  IF file.feature = <<>> THEN <<>>
  ELSE LET feature == file.feature[1]
           background == lastBackground(feature)
           found == firstScenario(feature)
       IN  IF found = <<>> THEN <<>>
           ELSE IF Len(found[1].examples) > 0
             THEN LET updatedScenario == processScenarioOutline(found[1], newId)
                  IN  IF updatedScenario # <<>>
                        THEN <<formatFeatureFile(feature, feature.tags, background,
                                                 updatedScenario[1])>>
                        ELSE <<>>
             ELSE <<formatFeatureFile(feature, feature.tags, background, found[1])>>

-----------------------------------------------------------------------------
(* The documents of a batch. *)

BatchSteps == <<Step("Given ", <<"on ", "<", "h", ">">>, NoDocString, Undefined, 1)>>

BatchScenario(examples) ==
  Scenario("sc", <<"visit ", "<", "h", ">">>, <<Tag("@s", 0, 1)>>, BatchSteps, examples)

BatchBackground == Background("", <<Step("Given ", <<"start">>, NoDocString, Undefined, 1)>>)

BatchExamples ==
  {<<>>,
   OneBlock(<< <<"h">> >>, << <<"a">> >>),
   <<Examples(1, <<>>, Undefined, OneRowBody(<< <<"a">> >>))>>,
   <<Examples(1, <<>>, TableHeader(<< <<"h">> >>, 1), Undefined)>>,
   <<Examples(1, <<>>, TableHeader(<< <<"h">> >>, 1), TableBody(<<>>))>>}

BatchFiles ==
  {Unparsed, Parsed(Feature("f", <<Tag("@f", 0, 1)>>, <<BatchBackground>>))}
    \cup {Parsed(Feature("f", <<Tag("@f", 0, 1)>>,
                         <<BatchBackground, ScenarioChild(BatchScenario(e))>>)) :
            e \in BatchExamples}
    \cup {Parsed(Feature("f", <<>>,
                         <<Rule("r", <<>>,
                                <<ScenarioChild(BatchScenario(
                                    OneBlock(<< <<"h">> >>, << <<"a">> >>)))>>)>>))}

-----------------------------------------------------------------------------
(* The Row Expander as a state machine: a parsed Scenario is expanded by   *)
(* one of the two implementations, then a caller writes to one object of   *)
(* one returned variant.                                                   *)

ExpanderIdle ==
  /\ pc = "off"
  /\ parsed = <<>>
  /\ scenario = <<>>
  /\ impl = "none"
  /\ expansions = <<>>
  /\ snapshot = <<>>
  /\ touched = 0

SubstituterIdle ==
  /\ spc = "off"
  /\ outline = <<>>
  /\ route = "none"
  /\ result = <<>>

BatchIdle ==
  /\ files = <<>>
  /\ disk = <<>>
  /\ cursor = 1
  /\ running = TRUE

ReplaceIdle ==
  /\ replaced = <<>>
  /\ mapping = <<>>
  /\ once = <<>>
  /\ passes = 0

CollectIdle ==
  /\ document = <<>>
  /\ entries = <<>>

EscapeIdle ==
  /\ cellValue = <<>>
  /\ cellText = <<>>

SplitIdle ==
  /\ sources = <<>>
  /\ tagExpression = <<>>
  /\ copy = "none"
  /\ language = <<>>
  /\ position = 1
  /\ decisions = <<>>
  /\ outputs = <<>>
  /\ thrownAt = <<>>

Init ==
  /\ pc = "parsed"
  /\ parsed \in ExpanderScenarios
  /\ scenario = parsed
  /\ impl = "none"
  /\ expansions = <<>>
  /\ snapshot = <<>>
  /\ touched = 0
  /\ SubstituterIdle
  /\ BatchIdle
  /\ ReplaceIdle
  /\ CollectIdle
  /\ EscapeIdle
  /\ SplitIdle

ExpandSplitter ==
  /\ pc = "parsed"
  /\ pc' = "expanded"
  /\ impl' = "splitter"
  /\ expansions' = expandScenarioOutlineRows(scenario)
  /\ snapshot' = expansions'
  /\ UNCHANGED <<scenario, parsed, touched, substituterVars, batchVars, restVars>>

ExpandUtils ==
  /\ pc = "parsed"
  /\ pc' = "expanded"
  /\ impl' = "utils"
  /\ expansions' = expandScenarioOutlineRowsUtils(scenario)
  /\ snapshot' = expansions'
  /\ UNCHANGED <<scenario, parsed, touched, substituterVars, batchVars, restVars>>

WriteVariant ==
  /\ pc = "expanded"
  /\ \E v \in DOMAIN expansions : \E o \in Objs(expansions[v]) :
       /\ touched' = v
       /\ scenario' = Write(scenario, o)
       /\ expansions' = [w \in DOMAIN expansions |-> Write(expansions[w], o)]
  /\ pc' = "mutated"
  /\ UNCHANGED <<parsed, impl, snapshot, substituterVars, batchVars, restVars>>

Next == ExpandSplitter \/ ExpandUtils \/ WriteVariant

Spec == Init /\ [][Next]_vars

-----------------------------------------------------------------------------
(* The Placeholder Substituter as a state machine.  Either                 *)
(* processScenarioOutline is applied to one Scenario, directly or to the   *)
(* sole element the Row Expander returns for it; or processFeatureFiles    *)
(* runs over a batch of files, one file a step.                            *)

InitSubst ==
  /\ ExpanderIdle
  /\ ReplaceIdle
  /\ CollectIdle
  /\ EscapeIdle
  /\ SplitIdle
  /\ \/ /\ spc = "ready"
        /\ outline \in SubstituterScenarios
        /\ route = "none"
        /\ result = <<>>
        /\ BatchIdle
     \/ /\ SubstituterIdle
        /\ files \in UNION {[1..n -> BatchFiles] : n \in 1..MaxFiles}
        /\ disk = [i \in DOMAIN files |-> <<>>]
        /\ cursor = 1
        /\ running = TRUE

Substitute ==
  /\ spc = "ready"
  /\ \E newId \in NewIds : result' = processScenarioOutline(outline, newId)
  /\ route' = "direct"
  /\ spc' = "substituted"
  /\ UNCHANGED <<outline, expanderVars, batchVars, restVars>>

ExpandSplitterThenSubstitute ==
  /\ spc = "ready"
  /\ LET expanded == expandScenarioOutlineRows(outline)
     IN  /\ Len(expanded) = 1
         /\ \E newId \in NewIds : result' = processScenarioOutline(expanded[1], newId)
  /\ route' = "splitter"
  /\ spc' = "substituted"
  /\ UNCHANGED <<outline, expanderVars, batchVars, restVars>>

ExpandUtilsThenSubstitute ==
  /\ spc = "ready"
  /\ LET expanded == expandScenarioOutlineRowsUtils(outline)
     IN  /\ Len(expanded) = 1
         /\ \E newId \in NewIds : result' = processScenarioOutline(expanded[1], newId)
  /\ route' = "utils"
  /\ spc' = "substituted"
  /\ UNCHANGED <<outline, expanderVars, batchVars, restVars>>

(* src/featureParser.ts:80-138, one turn of the loop.  The formatter and   *)
(* the write are calls that may throw; the try block of the loop catches   *)
(* what they throw, the file is left as it was and the loop goes on.       *)
ProcessFile ==
  /\ running
  /\ cursor <= Len(files)
  /\ \E newId \in NewIds : \E thrown \in BOOLEAN :
       LET content == rewrittenContent(files[cursor], newId)
       IN  disk' = IF content # <<>> /\ ~thrown
                     THEN [disk EXCEPT ![cursor] = content]
                     ELSE disk
  /\ cursor' = cursor + 1
  /\ UNCHANGED <<files, running, expanderVars, substituterVars, restVars>>

NextSubst ==
  \/ Substitute
  \/ ExpandSplitterThenSubstitute
  \/ ExpandUtilsThenSubstitute
  \/ ProcessFile

SpecSubst == InitSubst /\ [][NextSubst]_vars

-----------------------------------------------------------------------------
(* The Row Expander.                                                       *)

(* C1: for every Scenario whose Examples blocks hold N > 1 body rows in    *)
(* total, blocks of zero rows included, expandScenarioOutlineRows returns  *)
(* exactly N variants and each variant has exactly one body row in total.  *)
(* Fails in src/featureSplitter.ts, which adds a variant of no row for     *)
(* every block of zero rows.                                               *)
C1_ExactlyNVariants ==
  pc = "expanded" /\ totalRows(parsed) > 1
    => /\ Len(expansions) = totalRows(parsed)
       /\ \A v \in DOMAIN expansions : totalRows(expansions[v]) = 1

(* C2: expandScenarioOutlineRows returns the input Scenario, unchanged, as *)
(* the sole element whenever the Scenario has no Examples block or at most *)
(* one body row in total; it never returns the empty sequence.  Fails in   *)
(* src/helpers/gherkinUtils.ts, which has no test of the total.            *)
C2_UnchangedSoleElement ==
  pc = "expanded"
    => /\ Len(expansions) > 0
       /\ Len(parsed.examples) = 0 \/ totalRows(parsed) <= 1
            => /\ Len(expansions) = 1
               /\ ScenarioValue(expansions[1]) = ScenarioValue(parsed)

(* C3: in every variant of a multi-row Scenario the Examples blocks are    *)
(* the original's in number and order; the block of the retained row keeps *)
(* only that row, every other block is there with an empty body, and the   *)
(* header, name, description and tags of each block are the original's.    *)
(* Fails in src/helpers/gherkinUtils.ts, which keeps the target block only.*)
C3_BlocksKept ==
  pc = "expanded" /\ MultiRow(parsed)
    => \A v \in DOMAIN expansions :
         /\ Len(expansions[v].examples) = Len(parsed.examples)
         /\ \A b \in DOMAIN expansions[v].examples :
              /\ ExamplesFrame(expansions[v].examples[b]) = ExamplesFrame(parsed.examples[b])
              /\ expansions[v].examples[b].tableBody.defined
              /\ Len(BodyRows(expansions[v].examples[b])) <= 1
              /\ \A r \in DOMAIN BodyRows(expansions[v].examples[b]) :
                   \E j \in DOMAIN BodyRows(parsed.examples[b]) :
                     BodyRows(expansions[v].examples[b])[r].cells
                       = BodyRows(parsed.examples[b])[j].cells
         /\ totalRows(expansions[v]) <= 1

(* C4: no variant shares a sub-structure with the input Scenario or with   *)
(* another variant: after a write to any object of one variant, the input  *)
(* Scenario is as it was parsed and every other variant is as it was       *)
(* returned.  Fails in both implementations: the retained row of a variant *)
(* is the input's own row object.                                          *)
C4_NoAliasing ==
  pc = "mutated" /\ MultiRow(parsed)
    => /\ scenario = parsed
       /\ \A w \in DOMAIN expansions : w # touched => expansions[w] = snapshot[w]

(* C5: the k-th variant of a multi-row Scenario retains exactly the k-th   *)
(* body row in document order, with the cell values of that row.  Fails in *)
(* src/featureSplitter.ts after a block of zero rows, whose variant of no  *)
(* row (C1) takes a place in the sequence.                                 *)
C5_KthRowInOrder ==
  pc = "expanded" /\ MultiRow(parsed)
    => \A v \in DOMAIN expansions :
         /\ v <= totalRows(parsed)
         /\ RowsInOrder(expansions[v]) = <<RowsInOrder(parsed)[v]>>

-----------------------------------------------------------------------------
(* The Placeholder Substituter.                                            *)

HeaderNames(example) == Range(example.tableHeader.cells)

(* The value under header name `name`: the cell of the first body row      *)
(* below the last header cell of that name, the empty text if the row is   *)
(* too short.                                                              *)
HeaderValue(example, name) ==
  LET cells == example.tableHeader.cells
      last == CHOOSE i \in DOMAIN cells :
                cells[i] = name /\ \A j \in DOMAIN cells : cells[j] = name => j <= i
      row == example.tableBody.rows[1].cells
  IN  IF last <= Len(row) THEN row[last] ELSE <<>>

(* A text with every occurrence of "<", name, ">" for a header name        *)
(* replaced by the value under it, from position p on.                     *)
RECURSIVE ReplaceOccurrences(_, _, _)
ReplaceOccurrences(text, example, p) ==
  IF p > Len(text) THEN <<>>
  ELSE IF /\ p + 2 <= Len(text)
          /\ text[p] = "<"
          /\ <<text[p + 1]>> \in HeaderNames(example)
          /\ text[p + 2] = ">"
         THEN HeaderValue(example, <<text[p + 1]>>)
                \o ReplaceOccurrences(text, example, p + 3)
         ELSE <<text[p]>> \o ReplaceOccurrences(text, example, p + 1)

WellFormed(s) ==
  /\ Len(s.examples) > 0
  /\ s.examples[1].tableHeader.defined
  /\ s.examples[1].tableBody.defined
  /\ Len(s.examples[1].tableBody.rows) > 0

NoInheritedName(text) == "constructor" \notin Range(text)

(* A "<" before position p that no ">" closes before p. *)
OpenBefore(text, p) ==
  \E q \in 1..(p - 1) : text[q] = "<" /\ \A r \in (q + 1)..(p - 1) : text[r] # ">"

(* At position p of text stands "<", a header name, ">", and no earlier    *)
(* "<" is open there.                                                      *)
HeaderTokenAt(text, example, p) ==
  /\ p + 2 <= Len(text)
  /\ text[p] = "<"
  /\ <<text[p + 1]>> \in HeaderNames(example)
  /\ text[p + 2] = ">"
  /\ ~OpenBefore(text, p)

(* out is text with each such token replaced by the value under its name:  *)
(* around every one of them, out is what is made of the text before it,    *)
(* the value, and what is made of the text after it.                       *)
HeaderTokensReplaced(text, out, example) ==
  LET placeholderMap ==
        buildPlaceholderMap(example.tableHeader.cells, example.tableBody.rows[1].cells,
                            Len(example.tableHeader.cells))
  IN  \A p \in DOMAIN text :
        HeaderTokenAt(text, example, p)
          => out = replacePlaceholders(SubSeq(text, 1, p - 1), placeholderMap)
                     \o HeaderValue(example, <<text[p + 1]>>)
                     \o replacePlaceholders(SubSeq(text, p + 3, Len(text)), placeholderMap)

Direct == spc = "substituted" /\ route = "direct"

(* C6, as the code has it: when processScenarioOutline transforms a        *)
(* one-row Scenario Outline, every <h> for a header name h that is not     *)
(* inside an earlier open "<" is replaced by the row's value in the        *)
(* Scenario's name, in every Step's text and in every DocString's content; *)
(* every DataTable is handed on as it is.                                  *)
C6_HeaderTokensReplaced ==
  Direct /\ WellFormed(outline)
    => /\ result # <<>>
       /\ HeaderTokensReplaced(outline.name, result[1].name, outline.examples[1])
       /\ \A i \in DOMAIN outline.steps :
            /\ HeaderTokensReplaced(outline.steps[i].text, result[1].steps[i].text,
                                    outline.examples[1])
            /\ outline.steps[i].docString.defined
                 => /\ result[1].steps[i].docString.defined
                    /\ HeaderTokensReplaced(outline.steps[i].docString.content,
                                            result[1].steps[i].docString.content,
                                            outline.examples[1])
            /\ result[1].steps[i].dataTable = outline.steps[i].dataTable

(* A DocString of two placeholders, the value under the first holding a    *)
(* placeholder itself, has been substituted; the DataTable still holds its *)
(* placeholder.                                                            *)
C6_Witness ==
  /\ Direct
  /\ result # <<>>
  /\ outline.steps[1].docString.content = <<"<", "h", ">", "x", "<", "k", ">">>
  /\ result[1].steps[1].docString.content = <<"<", "k", ">", "x", "b">>
  /\ result[1].steps[2].dataTable.rows[1].cells[1] = <<"<", "h", ">">>

(* C6, as the specification has it: every occurrence of <h>, for every     *)
(* header name h, is replaced by the row's value in all four places: name, *)
(* Step text, DocString content, DataTable cell.                           *)
C6_AllFourPlaces ==
  Direct /\ WellFormed(outline)
    => /\ result # <<>>
       /\ NoInheritedName(outline.name)
            => result[1].name = ReplaceOccurrences(outline.name, outline.examples[1], 1)
       /\ \A i \in DOMAIN outline.steps :
            /\ NoInheritedName(outline.steps[i].text)
                 => result[1].steps[i].text
                      = ReplaceOccurrences(outline.steps[i].text, outline.examples[1], 1)
            /\ outline.steps[i].docString.defined
                 /\ NoInheritedName(outline.steps[i].docString.content)
                 => result[1].steps[i].docString.content
                      = ReplaceOccurrences(outline.steps[i].docString.content,
                                           outline.examples[1], 1)
            /\ \A r \in DOMAIN outline.steps[i].dataTable.rows :
                 \A c \in DOMAIN outline.steps[i].dataTable.rows[r].cells :
                   NoInheritedName(outline.steps[i].dataTable.rows[r].cells[c])
                     => result[1].steps[i].dataTable.rows[r].cells[c]
                          = ReplaceOccurrences(outline.steps[i].dataTable.rows[r].cells[c],
                                               outline.examples[1], 1)

(* A text that is one token: "<", a name of one symbol, ">". *)
SingleToken(text) ==
  Len(text) = 3 /\ text[1] = "<" /\ text[3] = ">" /\ text[2] \notin {"<", ">"}

(* out is what C7 asks of the single token text: the cell of the first     *)
(* body row under a header cell of that name, the empty text where the row *)
(* has no such cell; the token itself when no header cell has that name.   *)
PositionalOrUnchanged(text, out, example) ==
  LET cells == example.tableHeader.cells
      row == example.tableBody.rows[1].cells
  IN  IF <<text[2]>> \in Range(cells)
        THEN \E i \in DOMAIN cells :
               /\ cells[i] = <<text[2]>>
               /\ out = IF i <= Len(row) THEN row[i] ELSE <<>>
        ELSE out = text

(* C7: a token <h> whose name is the i-th header cell is replaced by the   *)
(* i-th cell of the first body row, or by the empty text when the row has  *)
(* no i-th cell; a token whose name is no header cell is left unchanged.   *)
(* Fails for a name every object literal inherits, such as "constructor".  *)
C7_PositionalOrUnchanged ==
  Direct /\ WellFormed(outline)
    => /\ result # <<>>
       /\ SingleToken(outline.name)
            => PositionalOrUnchanged(outline.name, result[1].name, outline.examples[1])
       /\ \A i \in DOMAIN outline.steps :
            /\ SingleToken(outline.steps[i].text)
                 => PositionalOrUnchanged(outline.steps[i].text, result[1].steps[i].text,
                                          outline.examples[1])
            /\ outline.steps[i].docString.defined
                 /\ SingleToken(outline.steps[i].docString.content)
                 => PositionalOrUnchanged(outline.steps[i].docString.content,
                                          result[1].steps[i].docString.content,
                                          outline.examples[1])

(* C8, as the code has it: the Scenario processScenarioOutline returns has *)
(* an empty Examples sequence and the tags of the original Scenario, in    *)
(* their order; the tags of the consumed Examples block are not among them *)
(* unless the Scenario had them.                                           *)
C8_ScenarioTagsOnly ==
  Direct /\ result # <<>>
    => /\ result[1].examples = <<>>
       /\ TagNames(result[1].tags) = TagNames(outline.tags)

(* An Outline whose Examples block has a tag the Scenario has not has been *)
(* substituted, and the result has not that tag.                           *)
C8_Witness ==
  /\ Direct
  /\ result # <<>>
  /\ "@e" \in Range(TagNames(outline.examples[1].tags))
  /\ "@e" \notin Range(TagNames(outline.tags))
  /\ "@e" \notin Range(TagNames(result[1].tags))

(* C8, as the specification has it: an empty Examples sequence and a tag   *)
(* set equal to the union of the original Scenario's tags and the tags of  *)
(* the consumed Examples block.                                            *)
C8_TagsPromoted ==
  Direct /\ result # <<>>
    => /\ result[1].examples = <<>>
       /\ Range(TagNames(result[1].tags))
            = Range(TagNames(outline.tags)) \cup Range(TagNames(outline.examples[1].tags))

(* The first Scenario of the file is an Outline whose first Examples block *)
(* has no header, no body or an empty body.                                *)
MalformedExamples(file) ==
  /\ file.feature # <<>>
  /\ firstScenario(file.feature[1]) # <<>>
  /\ Len(firstScenario(file.feature[1])[1].examples) > 0
  /\ ~WellFormed(firstScenario(file.feature[1])[1])

(* C9: processScenarioOutline returns null, and raises nothing, when the   *)
(* Scenario has no Examples block or its first Examples block has no       *)
(* header, no body or an empty body; and processFeatureFiles, given a file *)
(* of such a block, leaves the file as it is and goes on to the next one.  *)
C9_NoOpSignal ==
  /\ Direct /\ ~WellFormed(outline) => result = <<>>
  /\ \A i \in 1..(cursor - 1) : MalformedExamples(files[i]) => disk[i] = <<>>
  /\ running
  /\ cursor <= Len(files) => ENABLED ProcessFile

(* The first file of a batch of two had an Examples block with an empty    *)
(* body and is untouched; the second file has been rewritten after it.     *)
C9_Witness ==
  /\ cursor = 3
  /\ MalformedExamples(files[1])
  /\ firstScenario(files[1].feature[1])[1].examples[1].tableBody.defined
  /\ disk[1] = <<>>
  /\ disk[2] # <<>>

(* What C10 compares of what processScenarioOutline returns. *)
SubstitutedValue(returned) ==
  [r \in DOMAIN returned |->
     [name |-> returned[r].name,
      texts |-> [i \in DOMAIN returned[r].steps |-> returned[r].steps[i].text],
      docStrings |-> [i \in DOMAIN returned[r].steps |->
                        [defined |-> returned[r].steps[i].docString.defined,
                         content |-> returned[r].steps[i].docString.content]],
      tags |-> TagNames(returned[r].tags),
      examples |-> returned[r].examples]]

OneHeaderOneRow(s) ==
  /\ Len(s.examples) = 1
  /\ s.examples[1].tableHeader.defined
  /\ s.examples[1].tableBody.defined
  /\ Len(s.examples[1].tableBody.rows) = 1

(* C10: for a Scenario Outline of one Examples block with one header and   *)
(* one body row, the Substituter applied to the sole element of what       *)
(* either Row Expander returns yields the name, step texts, DocString      *)
(* contents, tags and empty Examples that the Substituter yields for the   *)
(* Outline itself.                                                         *)
C10_ExpandThenSubstitute ==
  spc = "substituted" /\ route \in {"splitter", "utils"} /\ OneHeaderOneRow(outline)
    => /\ result # <<>>
       /\ \A newId \in NewIds :
            SubstitutedValue(result) = SubstitutedValue(processScenarioOutline(outline, newId))

(* The clone src/helpers/gherkinUtils.ts makes of a one-row Outline has    *)
(* been substituted: the name has changed and the Examples are gone.       *)
C10_Witness ==
  /\ spc = "substituted"
  /\ route = "utils"
  /\ OneHeaderOneRow(outline)
  /\ result # <<>>
  /\ result[1].name # outline.name
  /\ result[1].examples = <<>>

-----------------------------------------------------------------------------
(* replacePlaceholders alone: a text and a placeholderMap, and the         *)
(* function applied to its own result, up to MaxPasses times.              *)

ReplaceValues == {<<"a">>, <<>>, <<"<", "k", ">">>, <<"<">>, <<">">>}

(* The maps processScenarioOutline builds from a header row and a body row. *)
ReplaceMaps ==
  {buildPlaceholderMap(headerCells, rowCells, Len(headerCells)) :
     headerCells \in {<< <<"h">> >>, << <<"h">>, <<"k">> >>},
     rowCells \in SeqsUpTo(ReplaceValues, 2)}

InitReplace ==
  /\ replaced \in Texts
  /\ mapping \in ReplaceMaps
  /\ once = <<>>
  /\ passes = 0
  /\ ExpanderIdle
  /\ SubstituterIdle
  /\ BatchIdle
  /\ CollectIdle
  /\ EscapeIdle
  /\ SplitIdle

Replace ==
  /\ passes < MaxPasses
  /\ replaced' = replacePlaceholders(replaced, mapping)
  /\ once' = IF passes = 0 THEN replaced' ELSE once
  /\ passes' = passes + 1
  /\ UNCHANGED <<mapping, expanderVars, substituterVars, batchVars,
                 collectVars, escapeVars, splitVars>>

NextReplace == Replace

SpecReplace == InitReplace /\ [][NextReplace]_vars

(* No value of the placeholderMap holds a "<". *)
NoOpeningInValues == \A name \in DOMAIN mapping : "<" \notin Range(mapping[name])

(* C11, as the code has it: replacePlaceholders applied to its own result  *)
(* gives that result again, for every text and every placeholderMap none   *)
(* of whose values holds a "<"; a value that holds one can make a token in *)
(* the result, which the next pass replaces.                               *)
C11_IdempotentWithoutOpening ==
  passes >= 2 /\ NoOpeningInValues => replaced = once

(* A text of two placeholders has gone through two passes. *)
C11_Witness ==
  /\ passes = 2
  /\ NoOpeningInValues
  /\ <<"h">> \in DOMAIN mapping
  /\ mapping[<<"h">>] = <<"a">>
  /\ once = <<"a", "a">>
  /\ replaced = <<"a", "a">>

(* C11, as the specification has it: replacePlaceholders applied to its    *)
(* own result gives that result again for every text and every mapping,    *)
(* a row value that holds a token naming a header included.                *)
C11_Idempotent ==
  passes >= 2 => replaced = once

-----------------------------------------------------------------------------
(* The Scenario invariant.                                                 *)

(* The keyword is the plain one exactly when there is no Examples block,   *)
(* and the Outline one exactly when there is one or more.                  *)
KeywordInvariant(s) ==
  /\ s.keyword = "Scenario" <=> Len(s.examples) = 0
  /\ s.keyword = "Scenario Outline" <=> Len(s.examples) > 0

(* What the Row Expander returns keeps the invariant: a variant keeps the  *)
(* keyword of the input and one Examples block at least.                   *)
ExpansionsKeepKeywordInvariant ==
  \A v \in DOMAIN expansions : KeywordInvariant(expansions[v])

(* C12: every Scenario the Row Expander or the Placeholder Substituter     *)
(* produces has the plain keyword exactly when it has no Examples block    *)
(* and the Outline keyword exactly when it has one or more; the            *)
(* Substituter's result is a plain Scenario.  Fails for the Substituter,   *)
(* whose result keeps the keyword of the Outline.                          *)
C12_KeywordInvariant ==
  /\ ExpansionsKeepKeywordInvariant
  /\ spc = "substituted" /\ result # <<>> => KeywordInvariant(result[1])

-----------------------------------------------------------------------------
(* The Entry Collector: collectScenarioEntries, src/featureSplitter.ts     *)
(* 161-203 and, word for word, src/helpers/gherkinUtils.ts 14-56.  An      *)
(* entry's rule is <<>> for undefined and <<the Rule>> otherwise.          *)

(* src/featureSplitter.ts:167-169 and 180-182: the Backgrounds among the   *)
(* children, in their order.                                               *)
backgroundsOf(children) == SelectSeq(children, LAMBDA c : c.kind = "background")

(* A departure from ruleEntries that gives the Scenarios of a Rule no      *)
(* Background of the Feature.                                              *)
ruleEntriesWithoutFeatureBackgrounds(rule, featureBackgrounds) ==
  LET ruleBackgrounds == backgroundsOf(rule.children)
      scenarios == SelectSeq(rule.children, LAMBDA x : x.kind = "scenario")
  IN  [j \in DOMAIN scenarios |->
         [scenario |-> scenarios[j].scenario[1],
          rule |-> <<rule>>,
          featureBackgrounds |-> <<>>,
          ruleBackgrounds |-> ruleBackgrounds]]

(* A departure from ruleEntries that gives the Scenarios of a Rule no      *)
(* Background of the Rule.                                                 *)
ruleEntriesWithoutRuleBackgrounds(rule, featureBackgrounds) ==
  LET scenarios == SelectSeq(rule.children, LAMBDA x : x.kind = "scenario")
  IN  [j \in DOMAIN scenarios |->
         [scenario |-> scenarios[j].scenario[1],
          rule |-> <<rule>>,
          featureBackgrounds |-> featureBackgrounds,
          ruleBackgrounds |-> <<>>]]

(* src/featureSplitter.ts:181-199: the entries of the Scenarios of a Rule. *)
ruleEntries(rule, featureBackgrounds) ==
  LET ruleBackgrounds == backgroundsOf(rule.children)
      scenarios == SelectSeq(rule.children, LAMBDA x : x.kind = "scenario")
  IN  [j \in DOMAIN scenarios |->
         [scenario |-> scenarios[j].scenario[1],
          rule |-> <<rule>>,
          featureBackgrounds |-> featureBackgrounds,
          ruleBackgrounds |-> ruleBackgrounds]]

(* A departure from collectScenarioEntries that takes the first Scenario   *)
(* of a Rule only.                                                         *)
collectScenarioEntriesFirstOfRule(feature) ==
  LET featureBackgrounds == backgroundsOf(feature.children)
      scenarioOrRule == SelectSeq(feature.children,
                                  LAMBDA c : c.kind = "scenario" \/ c.kind = "rule")
  IN  Flatten([i \in DOMAIN scenarioOrRule |->
                 IF scenarioOrRule[i].kind = "scenario"
                   THEN <<[scenario |-> scenarioOrRule[i].scenario[1],
                           rule |-> <<>>,
                           featureBackgrounds |-> featureBackgrounds,
                           ruleBackgrounds |-> <<>>]>>
                   ELSE SubSeq(ruleEntries(scenarioOrRule[i], featureBackgrounds), 1, 1)])

(* src/featureSplitter.ts:161-203 *)
collectScenarioEntries(feature) ==
  LET featureBackgrounds == backgroundsOf(feature.children)
      scenarioOrRule == SelectSeq(feature.children,
                                  LAMBDA c : c.kind = "scenario" \/ c.kind = "rule")
  IN  Flatten([i \in DOMAIN scenarioOrRule |->
                 IF scenarioOrRule[i].kind = "scenario"
                   THEN <<[scenario |-> scenarioOrRule[i].scenario[1],
                           rule |-> <<>>,
                           featureBackgrounds |-> featureBackgrounds,
                           ruleBackgrounds |-> <<>>]>>
                   ELSE ruleEntries(scenarioOrRule[i], featureBackgrounds)])

(* The Features handed to collectScenarioEntries: up to MaxChildren        *)
(* children, each a Background, a Scenario, a Rule of a Background and a   *)
(* Scenario, or a Rule of a Scenario, a Background and a second Scenario.  *)
(* The child at position i has its names and ids made of i.                *)
ChildKinds == {"background", "scenario", "rule of one", "rule of two"}

CollectSteps == <<Step("Given ", <<"start">>, NoDocString, Undefined, 1)>>

CollectScenario(i, j) == ScenarioChild(Scenario(Sym("sc", i, j), <<"plain">>, <<>>, CollectSteps, <<>>))

ChildOf(kind, i) ==
  CASE kind = "background" -> Background(Sym("bg", i, 0), CollectSteps)
    [] kind = "scenario" -> CollectScenario(i, 0)
    [] kind = "rule of one" ->
         Rule(Sym("rule", i, 0), <<Tag(Sym("@rule", i, 0), i, 1)>>,
              <<Background(Sym("bg", i, 1), CollectSteps), CollectScenario(i, 2)>>)
    [] kind = "rule of two" ->
         Rule(Sym("rule", i, 0), <<Tag(Sym("@rule", i, 0), i, 1)>>,
              <<CollectScenario(i, 1), Background(Sym("bg", i, 2), CollectSteps),
                CollectScenario(i, 3)>>)

CollectFeatures ==
  {Feature("f", <<Tag("@f", 0, 1)>>, [i \in DOMAIN kinds |-> ChildOf(kinds[i], i)]) :
     kinds \in SeqsUpTo(ChildKinds, MaxChildren)}

InitCollect ==
  /\ document \in CollectFeatures
  /\ entries = <<>>
  /\ ExpanderIdle
  /\ SubstituterIdle
  /\ BatchIdle
  /\ ReplaceIdle
  /\ EscapeIdle
  /\ SplitIdle

Collect ==
  /\ entries = <<>>
  /\ entries' = <<collectScenarioEntries(document)>>
  /\ UNCHANGED <<document, expanderVars, substituterVars, batchVars,
                 replaceVars, escapeVars, splitVars>>

NextCollect == Collect

SpecCollect == InitCollect /\ [][NextCollect]_vars

(* The children of the given kind, in the order of the children. *)
ChildrenOfKind(children, kind) ==
  Flatten([i \in DOMAIN children |->
             IF children[i].kind = kind THEN <<children[i]>> ELSE <<>>])

(* The Scenarios of a Feature in document order, those of a Rule at the    *)
(* place of the Rule.                                                      *)
ScenariosInOrder(feature) ==
  Flatten([i \in DOMAIN feature.children |->
             CASE feature.children[i].kind = "scenario" -> feature.children[i].scenario
               [] feature.children[i].kind = "rule" ->
                    Flatten([j \in DOMAIN feature.children[i].children |->
                               feature.children[i].children[j].scenario])
               [] OTHER -> <<>>])

Collected == entries # <<>>

(* C16: every entry collectScenarioEntries returns carries all the         *)
(* Backgrounds of the Feature's top level, in document order, whether its  *)
(* Scenario is at the top level or in a Rule and wherever the Backgrounds  *)
(* are declared.                                                           *)
C16_FeatureBackgroundsEverywhere ==
  Collected
    => \A e \in DOMAIN entries[1] :
         entries[1][e].featureBackgrounds = ChildrenOfKind(document.children, "background")

(* The entry of a Scenario in a Rule carries a Background of the Feature   *)
(* that is declared after the Rule.                                        *)
C16_Witness ==
  /\ Collected
  /\ Len(document.children) = 3
  /\ document.children[1].kind = "background"
  /\ document.children[2].kind = "rule"
  /\ document.children[3].kind = "background"
  /\ \E e \in DOMAIN entries[1] :
       /\ entries[1][e].rule = <<document.children[2]>>
       /\ entries[1][e].featureBackgrounds = <<document.children[1], document.children[3]>>

(* The entry's Scenario is a child of these children. *)
Holds(children, entry) ==
  \E j \in DOMAIN children : children[j].scenario = <<entry.scenario>>

(* C17: in every entry, the owning Rule and the Rule-level Backgrounds are *)
(* those of the Rule that directly contains the entry's Scenario; a        *)
(* top-level Scenario has no owning Rule and no Rule-level Background.     *)
C17_RuleScopedToItsScenarios ==
  Collected
    => \A e \in DOMAIN entries[1] :
         LET entry == entries[1][e]
         IN  IF Holds(document.children, entry)
               THEN entry.rule = <<>> /\ entry.ruleBackgrounds = <<>>
               ELSE \E i \in DOMAIN document.children :
                      /\ document.children[i].kind = "rule"
                      /\ Holds(document.children[i].children, entry)
                      /\ entry.rule = <<document.children[i]>>
                      /\ entry.ruleBackgrounds
                           = ChildrenOfKind(document.children[i].children, "background")

(* A Feature of two Rules and a top-level Scenario between them: the       *)
(* entries of the two Rules carry different Backgrounds, the entry of the  *)
(* top-level Scenario none.                                                *)
C17_Witness ==
  /\ Collected
  /\ Len(document.children) = 3
  /\ document.children[1].kind = "rule"
  /\ document.children[2].kind = "scenario"
  /\ document.children[3].kind = "rule"
  /\ Len(entries[1]) >= 3
  /\ entries[1][1].rule = <<document.children[1]>>
  /\ entries[1][1].ruleBackgrounds # <<>>
  /\ entries[1][Len(entries[1])].rule = <<document.children[3]>>
  /\ entries[1][Len(entries[1])].ruleBackgrounds # entries[1][1].ruleBackgrounds
  /\ \E e \in DOMAIN entries[1] :
       entries[1][e].rule = <<>> /\ entries[1][e].ruleBackgrounds = <<>>

(* C18: collectScenarioEntries returns exactly one entry per Scenario of   *)
(* the Feature, at the top level or in a Rule, none for a Background or a  *)
(* Rule itself, in document order with the Scenarios of a Rule at the      *)
(* place of the Rule.                                                      *)
C18_OneEntryPerScenarioInOrder ==
  Collected
    => [e \in DOMAIN entries[1] |-> entries[1][e].scenario] = ScenariosInOrder(document)

(* A Rule of two Scenarios between a Background and a top-level Scenario:  *)
(* three entries, the Rule's two first.                                    *)
C18_Witness ==
  /\ Collected
  /\ Len(document.children) = 3
  /\ document.children[1].kind = "background"
  /\ document.children[2].kind = "rule"
  /\ Len(document.children[2].children) = 3
  /\ document.children[3].kind = "scenario"
  /\ Len(entries[1]) = 3
  /\ entries[1][2].scenario = document.children[2].children[3].scenario[1]
  /\ entries[1][3].scenario = document.children[3].scenario[1]

-----------------------------------------------------------------------------
(* escapeTableCell, src/featureParser.ts:478-483.                          *)

Backslash == "\\"

Pipe == "|"

Newline == "\n"

(* value.replace(/sym/g, replacement) for a pattern of one symbol. *)
ReplaceAll(value, sym, replacement) ==
  Flatten([i \in DOMAIN value |-> IF value[i] = sym THEN replacement ELSE <<value[i]>>])

(* A departure from escapeTableCell that escapes the pipes before the      *)
(* backslashes.                                                            *)
escapeTableCellPipesFirst(value) ==
  ReplaceAll(ReplaceAll(ReplaceAll(value, Pipe, <<Backslash, Pipe>>),
                        Backslash, <<Backslash, Backslash>>),
             Newline, <<Backslash, "n">>)

(* src/featureParser.ts:478-483 *)
escapeTableCell(value) ==
  ReplaceAll(ReplaceAll(ReplaceAll(value, Backslash, <<Backslash, Backslash>>),
                        Pipe, <<Backslash, Pipe>>),
             Newline, <<Backslash, "n">>)

(* The cell values handed to escapeTableCell: ordinary characters, pipes,  *)
(* backslashes and newlines.                                               *)
CellSymbols == {"a", "n", Pipe, Backslash, Newline}

CellValues == SeqsUpTo(CellSymbols, MaxCellLen)

InitEscape ==
  /\ cellValue \in CellValues
  /\ cellText = <<>>
  /\ ExpanderIdle
  /\ SubstituterIdle
  /\ BatchIdle
  /\ ReplaceIdle
  /\ CollectIdle
  /\ SplitIdle

Escape ==
  /\ cellText = <<>>
  /\ cellText' = <<escapeTableCell(cellValue)>>
  /\ UNCHANGED <<cellValue, expanderVars, substituterVars, batchVars,
                 replaceVars, collectVars, splitVars>>

NextEscape == Escape

SpecEscape == InitEscape /\ [][NextEscape]_vars

(* What the Gherkin parser makes of the text of a cell, from position p    *)
(* on: backslash backslash is a backslash, backslash pipe a pipe,          *)
(* backslash n a newline; any other symbol stands for itself.              *)
RECURSIVE UnescapeFrom(_, _)
UnescapeFrom(text, p) ==
  IF p > Len(text) THEN <<>>
  ELSE IF text[p] = Backslash /\ p < Len(text) /\ text[p + 1] \in {Backslash, Pipe, "n"}
         THEN <<CASE text[p + 1] = Backslash -> Backslash
                  [] text[p + 1] = Pipe -> Pipe
                  [] text[p + 1] = "n" -> Newline>>
                \o UnescapeFrom(text, p + 2)
         ELSE <<text[p]>> \o UnescapeFrom(text, p + 1)

(* C20: for every cell value of ordinary characters, pipes, backslashes    *)
(* and newlines, un-escaping what escapeTableCell returns, as the parser   *)
(* does, gives the value back.                                             *)
C20_EscapeRoundTrip ==
  cellText # <<>> => UnescapeFrom(cellText[1], 1) = cellValue

(* A backslash followed by the letter n, then a pipe: each escaped. *)
C20_Witness ==
  /\ cellValue = <<Backslash, "n", Pipe>>
  /\ cellText = << <<Backslash, Backslash, "n", Backslash, Pipe>> >>

-----------------------------------------------------------------------------
(* The splitter, splitScenarioOutlinesByRows.  It is there twice: in       *)
(* src/featureSplitter.ts, with its own Row Expander, Tag Aggregator and   *)
(* Serializer, and in src/featureParser.ts from line 213 on, which takes   *)
(* the Row Expander and the Tag Aggregator of src/helpers/gherkinUtils.ts  *)
(* and has a Serializer that escapes table cells.                          *)

(* src/featureSplitter.ts:430-439.  rule is <<>> or <<the Rule>>. *)
gatherAllTagNames(feature, rule, s) ==
  LET featureTags == TagNames(feature.tags)
      ruleTags == IF rule # <<>> THEN TagNames(rule[1].tags) ELSE <<>>
      scenarioTags == TagNames(s.tags)
  IN  featureTags \o ruleTags \o scenarioTags

(* src/helpers/gherkinUtils.ts:112-122 *)
gatherAllTagNamesUtils(feature, rule, s) ==
  LET featureTags == TagNames(feature.tags)
      ruleTags == IF rule # <<>> THEN TagNames(rule[1].tags) ELSE <<>>
      scenarioTags == TagNames(s.tags)
      examplesTags == Flatten([i \in DOMAIN s.examples |-> TagNames(s.examples[i].tags)])
  IN  featureTags \o ruleTags \o scenarioTags \o examplesTags

(* The tag expressions of @cucumber/tag-expressions that are given here:   *)
(* a tag, and the negation of a tag.                                       *)
TagExpression(kind, tag) == [kind |-> kind, tag |-> tag]

(* tagFilter.evaluate(combinedTags), src/featureSplitter.ts:118 *)
evaluate(expression, tags) ==
  IF expression.kind = "not" THEN expression.tag \notin Range(tags)
  ELSE expression.tag \in Range(tags)

(* A line of a written file: what kind of line it is, the keyword it       *)
(* starts with, its words or symbols, and for a table row its cells as     *)
(* they are written between the pipes.                                     *)
Line(kind, label, text, cells) == [kind |-> kind, label |-> label, text |-> text, cells |-> cells]

(* src/featureSplitter.ts:388-400: a step and what follows it.  A          *)
(* DocString is written only when its content is not empty, between        *)
(* triple quotes; the cells of a DataTable are written as they are.        *)
buildStepLine(step) ==
  <<Line("step", step.keyword, step.text, <<>>)>>
    \o (IF step.docString.defined /\ step.docString.content # <<>>
          THEN <<Line("delimiter", "quotes", <<>>, <<>>),
                 Line("content", "", step.docString.content, <<>>),
                 Line("delimiter", "quotes", <<>>, <<>>)>>
          ELSE <<>>)
    \o (IF step.dataTable.defined /\ Len(step.dataTable.rows) > 0
          THEN [r \in DOMAIN step.dataTable.rows |->
                  Line("row", "", <<>>, step.dataTable.rows[r].cells)]
          ELSE <<>>)

(* src/featureParser.ts:439-453: the same, the cells escaped. *)
buildStepLineEscaping(step) ==
  <<Line("step", step.keyword, step.text, <<>>)>>
    \o (IF step.docString.defined /\ step.docString.content # <<>>
          THEN <<Line("delimiter", "quotes", <<>>, <<>>),
                 Line("content", "", step.docString.content, <<>>),
                 Line("delimiter", "quotes", <<>>, <<>>)>>
          ELSE <<>>)
    \o (IF step.dataTable.defined /\ Len(step.dataTable.rows) > 0
          THEN [r \in DOMAIN step.dataTable.rows |->
                  Line("row", "", <<>>,
                       [c \in DOMAIN step.dataTable.rows[r].cells |->
                          escapeTableCell(step.dataTable.rows[r].cells[c])])]
          ELSE <<>>)

(* src/featureSplitter.ts:402-425 *)
buildExamplesBlock(ex) ==
  (IF Len(ex.tags) > 0 THEN <<Line("tags", "", TagNames(ex.tags), <<>>)>> ELSE <<>>)
    \o <<Line("title", "Examples", <<ex.name>>, <<>>)>>
    \o (IF ex.description # "" THEN <<Line("description", "", <<ex.description>>, <<>>)>>
        ELSE <<>>)
    \o (IF ex.tableHeader.defined /\ Len(ex.tableHeader.cells) > 0
          THEN <<Line("row", "", <<>>, ex.tableHeader.cells)>>
          ELSE <<>>)
    \o (IF ex.tableBody.defined /\ Len(ex.tableBody.rows) > 0
          THEN [r \in DOMAIN ex.tableBody.rows |->
                  Line("row", "", <<>>, ex.tableBody.rows[r].cells)]
          ELSE <<>>)

(* src/featureParser.ts:455-476 *)
buildExamplesBlockEscaping(ex) ==
  (IF Len(ex.tags) > 0 THEN <<Line("tags", "", TagNames(ex.tags), <<>>)>> ELSE <<>>)
    \o <<Line("title", "Examples", <<ex.name>>, <<>>)>>
    \o (IF ex.description # "" THEN <<Line("description", "", <<ex.description>>, <<>>)>>
        ELSE <<>>)
    \o (IF ex.tableHeader.defined /\ Len(ex.tableHeader.cells) > 0
          THEN <<Line("row", "", <<>>,
                      [c \in DOMAIN ex.tableHeader.cells |->
                         escapeTableCell(ex.tableHeader.cells[c])])>>
          ELSE <<>>)
    \o (IF ex.tableBody.defined /\ Len(ex.tableBody.rows) > 0
          THEN [r \in DOMAIN ex.tableBody.rows |->
                  Line("row", "", <<>>,
                       [c \in DOMAIN ex.tableBody.rows[r].cells |->
                          escapeTableCell(ex.tableBody.rows[r].cells[c])])]
          ELSE <<>>)

(* src/featureSplitter.ts:349-359 and src/featureParser.ts:402-412; which  *)
(* says which copy of the splitter writes.                                 *)
buildBackgroundLines(bg, which) ==
  <<Line("title", "Background", <<bg.name>>, <<>>)>>
    \o Flatten([i \in DOMAIN bg.steps |->
                  IF which = "featureParser" THEN buildStepLineEscaping(bg.steps[i])
                  ELSE buildStepLine(bg.steps[i])])

(* src/featureSplitter.ts:361-386 and src/featureParser.ts:414-437 *)
buildScenarioText(s, which) ==
  (IF Len(s.tags) > 0 THEN <<Line("tags", "", TagNames(s.tags), <<>>)>> ELSE <<>>)
    \o <<Line("title", s.keyword, s.name, <<>>)>>
    \o Flatten([i \in DOMAIN s.steps |->
                  IF which = "featureParser" THEN buildStepLineEscaping(s.steps[i])
                  ELSE buildStepLine(s.steps[i])])
    \o Flatten([i \in DOMAIN s.examples |->
                  IF which = "featureParser" THEN buildExamplesBlockEscaping(s.examples[i])
                  ELSE buildExamplesBlock(s.examples[i])])

Blank == Line("blank", "", <<>>, <<>>)

(* src/featureSplitter.ts:295-347 and src/featureParser.ts:348-400.  lang  *)
(* is <<>> or <<the language>>; "EN" stands for en in any case.            *)
buildSingleScenarioFeature(feature, rule, s, featureBackgrounds, ruleBackgrounds, lang, which) ==
  (IF lang # <<>> /\ lang[1] # "EN" THEN <<Line("language", "", lang, <<>>)>> ELSE <<>>)
    \o (IF Len(feature.tags) > 0 THEN <<Line("tags", "", TagNames(feature.tags), <<>>)>>
        ELSE <<>>)
    \o <<Line("title", "Feature", <<feature.name>>, <<>>), Blank>>
    \o Flatten([b \in DOMAIN featureBackgrounds |->
                  buildBackgroundLines(featureBackgrounds[b], which) \o <<Blank>>])
    \o (IF rule # <<>>
          THEN (IF Len(rule[1].tags) > 0
                  THEN <<Line("tags", "", TagNames(rule[1].tags), <<>>)>> ELSE <<>>)
                 \o <<Line("title", "Rule", <<rule[1].name>>, <<>>), Blank>>
                 \o Flatten([b \in DOMAIN ruleBackgrounds |->
                               buildBackgroundLines(ruleBackgrounds[b], which) \o <<Blank>>])
          ELSE <<>>)
    \o buildScenarioText(s, which)

(* A departure from makeOutputName that leaves the base name out. *)
makeOutputNameWithoutBase(filePath, index) == "_" \o ToString(index) \o ".feature"

(* src/featureSplitter.ts:445-448: the base name of the path, without its  *)
(* directory and its .feature, then the index.                             *)
makeOutputName(filePath, index) == filePath.base \o "_" \o ToString(index) \o ".feature"

(* src/featureSplitter.ts:109-118: the candidates of a Feature in the      *)
(* order the two loops meet them, each with what the loop body has at hand *)
(* for it.                                                                 *)
candidatesOf(feature, which) ==
  LET scenarioEntries == collectScenarioEntries(feature)
  IN  Flatten([e \in DOMAIN scenarioEntries |->
        LET entry == scenarioEntries[e]
            expanded == IF which = "featureParser"
                            THEN expandScenarioOutlineRowsUtils(entry.scenario)
                            ELSE expandScenarioOutlineRows(entry.scenario)
        IN  [v \in DOMAIN expanded |->
               [entry |-> e,
                variant |-> v,
                rule |-> entry.rule,
                featureBackgrounds |-> entry.featureBackgrounds,
                ruleBackgrounds |-> entry.ruleBackgrounds,
                scenarioCandidate |-> expanded[v],
                combinedTags |-> IF which = "featureParser"
                                   THEN gatherAllTagNamesUtils(feature, entry.rule,
                                                               expanded[v])
                                   ELSE gatherAllTagNames(feature, entry.rule,
                                                          expanded[v])]]])

(* src/featureSplitter.ts:118-120: the candidate is not skipped. *)
passesFilter(tagFilter, combinedTags) ==
  ~(tagFilter # <<>> /\ ~evaluate(tagFilter[1], combinedTags))

(* A departure from writeCandidates that numbers a file by the place of    *)
(* its candidate among all candidates, the skipped ones counted.           *)
RECURSIVE writeCandidatesCountingAll(_, _, _, _)
writeCandidatesCountingAll(run, candidates, i, scenarioCount) ==
  IF i > Len(candidates) THEN <<>>
  ELSE IF ~passesFilter(run.tagFilter, candidates[i].combinedTags)
         THEN writeCandidatesCountingAll(run, candidates, i + 1, scenarioCount + 1)
         ELSE <<[name |-> makeOutputName(run.filePath, scenarioCount + 1),
                 from |-> run.position,
                 entry |-> candidates[i].entry,
                 variant |-> candidates[i].variant,
                 lines |-> buildSingleScenarioFeature(
                             run.feature, candidates[i].rule,
                             candidates[i].scenarioCandidate,
                             candidates[i].featureBackgrounds,
                             candidates[i].ruleBackgrounds, run.lang, run.which)]>>
                \o writeCandidatesCountingAll(run, candidates, i + 1, scenarioCount + 1)

(* src/featureSplitter.ts:116-137: the files written for the candidates    *)
(* from the i-th on, scenarioCount files of this source written before.    *)
RECURSIVE writeCandidates(_, _, _, _)
writeCandidates(run, candidates, i, scenarioCount) ==
  IF i > Len(candidates) THEN <<>>
  ELSE IF ~passesFilter(run.tagFilter, candidates[i].combinedTags)
         THEN writeCandidates(run, candidates, i + 1, scenarioCount)
         ELSE <<[name |-> makeOutputName(run.filePath, scenarioCount + 1),
                 from |-> run.position,
                 entry |-> candidates[i].entry,
                 variant |-> candidates[i].variant,
                 lines |-> buildSingleScenarioFeature(
                             run.feature, candidates[i].rule,
                             candidates[i].scenarioCandidate,
                             candidates[i].featureBackgrounds,
                             candidates[i].ruleBackgrounds, run.lang, run.which)]>>
                \o writeCandidates(run, candidates, i + 1, scenarioCount + 1)

(* The files of a batch.  A glob of one directory gives paths of different *)
(* base names: the file at position i is named by i.                       *)
SplitSteps ==
  <<Step("Given ", <<"on ", "<", "h", ">">>, DocString("quotes", <<"doc">>, 1), Undefined, 1),
    Step("Then ", <<"see">>, NoDocString,
         TableBody(<<TableRow(<< <<"a", Pipe, "b">>, <<"c">> >>, 2, 1)>>), 2)>>

(* A step whose DocString stands between triple backticks. *)
BacktickSteps ==
  <<Step("And ", <<"logs">>, DocString("backticks", <<"doc">>, 1), Undefined, 1)>>

PlainScenario(id, tags) == ScenarioChild(Scenario(id, <<"plain">>, tags, SplitSteps, <<>>))

OutlineScenario(id, tags, examples) ==
  ScenarioChild(Scenario(id, <<"visit ", "<", "h", ">">>, tags, SplitSteps, examples))

TwoRowBlock ==
  Examples(1, <<Tag("@e", 1, 1)>>, TableHeader(<< <<"h">> >>, 1),
           TableBody(<<TableRow(<< <<"x", Backslash>> >>, 1, 1),
                       TableRow(<< <<"y", Newline>> >>, 1, 2)>>))

OneRowBlock(i, tag) ==
  Examples(i, <<Tag(tag, i, 1)>>, TableHeader(<< <<"h">> >>, i),
           TableBody(<<TableRow(<< <<"z">> >>, i, 1)>>))

SplitFeatures ==
  {Feature("f", <<Tag("@f", 0, 1)>>,
           <<BatchBackground, PlainScenario("s1", <<Tag("@a", 0, 1)>>)>>),
   Feature("f", <<Tag("@f", 0, 1)>>,
           <<OutlineScenario("o1", <<Tag("@a", 0, 1)>>, <<TwoRowBlock>>)>>),
   Feature("f", <<>>,
           <<Rule("r", <<Tag("@r", 0, 1)>>,
                  <<BatchBackground,
                    OutlineScenario("o2", <<>>, <<OneRowBlock(1, "@e"), OneRowBlock(2, "@g")>>)>>),
             PlainScenario("s2", <<Tag("@b", 0, 1)>>)>>),
   Feature("f", <<>>,
           <<PlainScenario("s1", <<Tag("@a", 0, 1)>>),
             PlainScenario("s2", <<Tag("@b", 0, 1)>>),
             PlainScenario("s3", <<Tag("@a", 0, 1)>>)>>),
   Feature("f", <<>>, <<OutlineScenario("o3", <<>>, <<OneRowBlock(1, "@e")>>)>>),
   Feature("f", <<>>,
           <<ScenarioChild(Scenario("s4", <<"plain">>, <<Tag("@a", 0, 1)>>,
                                    BacktickSteps, <<>>))>>)}

SplitFiles == {Unparsed} \cup {Parsed(feature) : feature \in SplitFeatures}

FilePath(i) == [dir |-> "specs", base |-> Sym("file", i, 0)]

TagExpressions ==
  {TagExpression("tag", "@a"), TagExpression("not", "@a"),
   TagExpression("tag", "@e"), TagExpression("tag", "@r")}

Languages == {<<>>, <<"EN">>, <<"fr">>}

InitSplit ==
  /\ \E parses \in UNION {[1..n -> SplitFiles] : n \in 1..MaxFiles} :
       sources = [i \in DOMAIN parses |-> [filePath |-> FilePath(i), parse |-> parses[i]]]
  /\ tagExpression \in {<<>>} \cup {<<expression>> : expression \in TagExpressions}
  /\ copy \in {"featureSplitter", "featureParser"}
  /\ language \in Languages
  /\ position = 1
  /\ decisions = <<>>
  /\ outputs = <<>>
  /\ thrownAt = <<>>
  /\ ExpanderIdle
  /\ SubstituterIdle
  /\ BatchIdle
  /\ ReplaceIdle
  /\ CollectIdle
  /\ EscapeIdle

(* src/featureSplitter.ts:93-142, one turn of the loop over the files. *)
SplitFile ==
  /\ thrownAt = <<>>
  /\ position <= Len(sources)
  /\ LET source == sources[position]
     IN  IF source.parse.feature = <<>>
           THEN UNCHANGED <<decisions, outputs>>
           ELSE LET feature == source.parse.feature[1]
                    candidates == candidatesOf(feature, copy)
                    run == [filePath |-> source.filePath, position |-> position,
                            feature |-> feature, tagFilter |-> tagExpression,
                            lang |-> language, which |-> copy]
                IN  /\ decisions' =
                         decisions \o
                           [i \in DOMAIN candidates |->
                              [from |-> position,
                               entry |-> candidates[i].entry,
                               variant |-> candidates[i].variant,
                               rule |-> candidates[i].rule,
                               scenarioCandidate |-> candidates[i].scenarioCandidate,
                               combinedTags |-> candidates[i].combinedTags,
                               passed |-> passesFilter(tagExpression,
                                                       candidates[i].combinedTags)]]
                    /\ outputs' = outputs \o writeCandidates(run, candidates, 1, 0)
  /\ position' = position + 1
  /\ UNCHANGED <<sources, tagExpression, copy, language, thrownAt, expanderVars,
                 substituterVars, batchVars, replaceVars, collectVars, escapeVars>>

(* src/featureSplitter.ts:96-97 with 19-26: the stream of the file gives   *)
(* an error, streamToArray rejects and the await throws.  Nothing in the   *)
(* loop catches it: the function is left with the files from this one on   *)
(* not looked at, and performSetup (src/performSetup.ts:18-20) logs the    *)
(* error.                                                                  *)
SplitFileThrows ==
  /\ thrownAt = <<>>
  /\ position <= Len(sources)
  /\ thrownAt' = <<position>>
  /\ UNCHANGED <<sources, tagExpression, copy, language, position, decisions, outputs,
                 expanderVars, substituterVars, batchVars, replaceVars, collectVars,
                 escapeVars>>

NextSplit ==
  \/ SplitFile
  \/ SplitFileThrows

SpecSplit == InitSplit /\ [][NextSplit]_vars

(* The tags the Tag Aggregator is to give for the candidate of a decision: *)
(* those of the Feature, of the Rule if there is one, of the candidate,    *)
(* and of every Examples block the candidate still has.                    *)
FourSources(d) ==
  LET feature == sources[d.from].parse.feature[1]
  IN  TagNames(feature.tags)
        \o (IF d.rule # <<>> THEN TagNames(d.rule[1].tags) ELSE <<>>)
        \o TagNames(d.scenarioCandidate.tags)
        \o Flatten([i \in DOMAIN d.scenarioCandidate.examples |->
                      TagNames(d.scenarioCandidate.examples[i].tags)])

(* C13: gatherAllTagNames returns, in this order, the tags of the Feature, *)
(* of the Rule when one is given, of the candidate Scenario and of every   *)
(* Examples block still attached to the candidate.  Fails in               *)
(* src/featureSplitter.ts, which leaves the tags of the Examples out.      *)
C13_FourSourcesInOrder ==
  \A i \in DOMAIN decisions : decisions[i].combinedTags = FourSources(decisions[i])

(* The copy of src/helpers/gherkinUtils.ts does give the four sources. *)
UtilsGathersFourSources ==
  copy = "featureParser"
    => \A i \in DOMAIN decisions : decisions[i].combinedTags = FourSources(decisions[i])

(* A file was written for the candidate of the decision. *)
Emitted(d) ==
  \E o \in DOMAIN outputs :
    outputs[o].from = d.from /\ outputs[o].entry = d.entry /\ outputs[o].variant = d.variant

(* C14: a candidate is emitted if and only if no tag expression was given  *)
(* or the expression is true of the candidate's aggregated tags; when it   *)
(* is false of every candidate of a file nothing is written for that file  *)
(* and the batch goes on.  Fails in src/featureSplitter.ts for an          *)
(* expression over a tag of an Examples block, which is not among the tags *)
(* the filter is given (C13).                                              *)
C14_EmittedIffFilterAccepts ==
  /\ \A i \in DOMAIN decisions :
       Emitted(decisions[i])
         <=> (tagExpression = <<>>
                \/ evaluate(tagExpression[1], FourSources(decisions[i])))
  /\ \A p \in 1..(position - 1) :
       (\A i \in DOMAIN decisions :
          decisions[i].from = p
            => tagExpression # <<>>
                 /\ ~evaluate(tagExpression[1], FourSources(decisions[i])))
         => \A o \in DOMAIN outputs : outputs[o].from # p

(* On the tags gatherAllTagNames gave it, the filter is as C14 has it, in  *)
(* both copies.                                                            *)
EmittedIffFilterAcceptsCombinedTags ==
  /\ \A i \in DOMAIN decisions :
       Emitted(decisions[i])
         <=> (tagExpression = <<>>
                \/ evaluate(tagExpression[1], decisions[i].combinedTags))
  /\ \A p \in 1..(position - 1) :
       (\A i \in DOMAIN decisions : decisions[i].from = p => ~decisions[i].passed)
         => \A o \in DOMAIN outputs : outputs[o].from # p

OutputsFrom(p) == SelectSeq(outputs, LAMBDA o : o.from = p)

DecisionsFrom(p) == SelectSeq(decisions, LAMBDA d : d.from = p)

PassedFrom(p) == SelectSeq(decisions, LAMBDA d : d.from = p /\ d.passed)

(* C15: for each source file the names written are <basename>_1, ...,      *)
(* <basename>_k in the order written, k the number of candidates the       *)
(* filter let through: the j-th of them, entries in document order and     *)
(* variants in row order, has number j; the count starts at 1 for every    *)
(* file and a candidate the filter stopped takes no number.                *)
C15_NumberedInEmissionOrder ==
  /\ \A a, b \in DOMAIN outputs : a < b => outputs[a].from <= outputs[b].from
  /\ \A p \in 1..(position - 1) :
       LET written == OutputsFrom(p)
           passed == PassedFrom(p)
           met == DecisionsFrom(p)
       IN  /\ Len(written) = Len(passed)
           /\ \A j \in DOMAIN written :
                /\ written[j].name
                     = sources[p].filePath.base \o "_" \o ToString(j) \o ".feature"
                /\ written[j].entry = passed[j].entry
                /\ written[j].variant = passed[j].variant
           /\ \A a, b \in DOMAIN met :
                a < b => \/ met[a].entry < met[b].entry
                         \/ met[a].entry = met[b].entry /\ met[a].variant < met[b].variant

(* Two files of three Scenarios each, the second Scenario stopped by the   *)
(* filter: the first and the third are written as _1 and _2, for the       *)
(* second file as for the first.                                           *)
C15_Witness ==
  /\ position = 3
  /\ Len(DecisionsFrom(1)) = 3
  /\ Len(DecisionsFrom(2)) = 3
  /\ Len(outputs) = 4
  /\ outputs[2].name = "file10_2.feature"
  /\ outputs[2].entry = 3
  /\ outputs[3].name = "file20_1.feature"
  /\ outputs[4].name = "file20_2.feature"
  /\ outputs[4].entry = 3

(* The number of backslashes that stand right before position p. *)
BackslashesBefore(text, p) ==
  Cardinality({q \in 1..(p - 1) : \A r \in q..(p - 1) : text[r] = Backslash})

(* The text holds a pipe that no backslash escapes. *)
BarePipe(text) ==
  \E p \in DOMAIN text : text[p] = Pipe /\ BackslashesBefore(text, p) % 2 = 0

(* The text is what escapeTableCell gives for some value. *)
Escaped(text) == escapeTableCell(UnescapeFrom(text, 1)) = text

(* C19: every table cell the Serializer writes, of a DataTable or of an    *)
(* Examples block, is escaped, backslash first, then pipe, then newline:   *)
(* no written cell holds a bare pipe or a newline.  Fails in               *)
(* src/featureSplitter.ts, which writes the cells as they are.             *)
C19_CellsEscaped ==
  \A o \in DOMAIN outputs :
    \A l \in DOMAIN outputs[o].lines :
      \A c \in DOMAIN outputs[o].lines[l].cells :
        /\ Escaped(outputs[o].lines[l].cells[c])
        /\ ~BarePipe(outputs[o].lines[l].cells[c])
        /\ Newline \notin Range(outputs[o].lines[l].cells[c])

(* The copy of src/featureParser.ts does escape every cell it writes. *)
SecondCopyEscapesCells ==
  copy = "featureParser"
    => \A o \in DOMAIN outputs :
         \A l \in DOMAIN outputs[o].lines :
           \A c \in DOMAIN outputs[o].lines[l].cells :
             /\ Escaped(outputs[o].lines[l].cells[c])
             /\ ~BarePipe(outputs[o].lines[l].cells[c])
             /\ Newline \notin Range(outputs[o].lines[l].cells[c])

(* The delimiters of the DocStrings of the steps, each as it opens and as  *)
(* it closes its block, for the DocStrings that are written.               *)
ExpectedDelimiters(steps) ==
  Flatten([i \in DOMAIN steps |->
             IF steps[i].docString.defined /\ steps[i].docString.content # <<>>
               THEN <<steps[i].docString.delimiter, steps[i].docString.delimiter>>
               ELSE <<>>])

(* The delimiter lines of a written file, in order. *)
RenderedDelimiters(lines) ==
  LET found == SelectSeq(lines, LAMBDA l : l.kind = "delimiter")
  IN  [i \in DOMAIN found |-> found[i].label]

(* The steps a written file is made of: those of the Feature's             *)
(* Backgrounds, of the Rule's Backgrounds and of the Scenario.             *)
StepsWritten(o) ==
  LET entry == collectScenarioEntries(sources[o.from].parse.feature[1])[o.entry]
  IN  Flatten([b \in DOMAIN entry.featureBackgrounds |-> entry.featureBackgrounds[b].steps])
        \o Flatten([b \in DOMAIN entry.ruleBackgrounds |-> entry.ruleBackgrounds[b].steps])
        \o entry.scenario.steps

(* C21: a DocString is written between the delimiter it had in the input,  *)
(* triple quotes for triple quotes and triple backticks for triple         *)
(* backticks.  Fails: buildStepLine writes triple quotes whatever the      *)
(* delimiter was, in both copies, and so does formatDocString.             *)
C21_DocStringDelimiterKept ==
  \A o \in DOMAIN outputs :
    RenderedDelimiters(outputs[o].lines) = ExpectedDelimiters(StepsWritten(outputs[o]))

(* A DocString between triple quotes is written between triple quotes. *)
QuotedDocStringKept ==
  \A o \in DOMAIN outputs :
    (\A i \in DOMAIN StepsWritten(outputs[o]) :
       StepsWritten(outputs[o])[i].docString.defined
         => StepsWritten(outputs[o])[i].docString.delimiter = "quotes")
      => RenderedDelimiters(outputs[o].lines) = ExpectedDelimiters(StepsWritten(outputs[o]))

(* The run of splitScenarioOutlinesByRows is over: the loop came to the    *)
(* end of the files, or it was left by an exception.                       *)
RunOver == thrownAt # <<>> \/ position > Len(sources)

(* The number of files the source at p is to give: its candidates that the *)
(* filter lets through, none for a file without a Feature.                 *)
ExpectedOutputs(p) ==
  IF sources[p].parse.feature = <<>> THEN 0
  ELSE LET candidates == candidatesOf(sources[p].parse.feature[1], copy)
       IN  Cardinality({i \in DOMAIN candidates :
                          passesFilter(tagExpression, candidates[i].combinedTags)})

(* C22: when one document of a batch fails, that document alone is         *)
(* skipped: once the run is over, every other document of the batch has    *)
(* been processed and its outputs are written.  Fails in                   *)
(* splitScenarioOutlinesByRows, whose loop has no try block: an exception  *)
(* at one file ends the run, and the files after it are never read.        *)
C22_FailureSkipsOneDocument ==
  RunOver
    => \A p \in DOMAIN sources :
         p \notin Range(thrownAt) => Len(OutputsFrom(p)) = ExpectedOutputs(p)

(* What was written before the exception stays, and a file in which no     *)
(* Feature is found is skipped with the batch going on.                    *)
EarlierDocumentsKept ==
  RunOver
    => \A p \in DOMAIN sources :
         (thrownAt = <<>> \/ p < thrownAt[1]) => Len(OutputsFrom(p)) = ExpectedOutputs(p)

(* The Scenarios that stand inside the Rules of the Feature, in order. *)
ScenariosInRules(feature) ==
  Flatten([c \in DOMAIN feature.children |->
             IF feature.children[c].kind = "rule"
               THEN Flatten([k \in DOMAIN feature.children[c].children |->
                               feature.children[c].children[k].scenario])
               ELSE <<>>])

(* The first Scenario of the file stands inside a Rule and is an Outline   *)
(* of one well-formed Examples block.                                      *)
RuleNestedOutline(file) ==
  /\ file.feature # <<>>
  /\ \A c \in DOMAIN file.feature[1].children : file.feature[1].children[c].kind # "scenario"
  /\ ScenariosInRules(file.feature[1]) # <<>>
  /\ Len(ScenariosInRules(file.feature[1])[1].examples) > 0
  /\ WellFormed(ScenariosInRules(file.feature[1])[1])

(* The first Scenario of the file stands at the top of the Feature and is  *)
(* an Outline of one well-formed Examples block.                           *)
TopLevelOutline(file) ==
  /\ file.feature # <<>>
  /\ firstScenario(file.feature[1]) # <<>>
  /\ Len(firstScenario(file.feature[1])[1].examples) > 0
  /\ WellFormed(firstScenario(file.feature[1])[1])

(* What is written for the file has the steps of the substituted Scenario. *)
WrittenAsSubstituted(content, s, newId) ==
  /\ content # <<>>
  /\ processScenarioOutline(s, newId) # <<>>
  /\ [i \in DOMAIN content[1].steps |-> content[1].steps[i].text]
       = [i \in DOMAIN s.steps |-> processScenarioOutline(s, newId)[1].steps[i].text]
  /\ content[1].name = processScenarioOutline(s, newId)[1].name
  /\ content[1].keyword = "Scenario"

(* C23: processFeatureFiles converts the first Scenario of the file also   *)
(* when it stands inside a Rule: what is written has the placeholders      *)
(* replaced by the values of the row, no Examples block, and the Rule.     *)
(* Fails: the loop over feature.children looks at child.scenario only, a   *)
(* Scenario inside a Rule is not found and the file is left as it was.     *)
C23_RuleNestedScenarioConverted ==
  \A i \in 1..(cursor - 1) :
    RuleNestedOutline(files[i])
      => \A newId \in NewIds :
           /\ WrittenAsSubstituted(rewrittenContent(files[i], newId),
                                   ScenariosInRules(files[i].feature[1])[1], newId)
           /\ "rule" \in DOMAIN rewrittenContent(files[i], newId)[1]

(* An Outline at the top of the Feature is converted, and nothing but what *)
(* rewrittenContent gives is ever written to a file.                       *)
TopLevelScenarioConverted ==
  \A i \in 1..(cursor - 1) :
    /\ TopLevelOutline(files[i])
         => \A newId \in NewIds :
              WrittenAsSubstituted(rewrittenContent(files[i], newId),
                                   firstScenario(files[i].feature[1])[1], newId)
    /\ disk[i] # <<>> => \E newId \in NewIds : disk[i] = rewrittenContent(files[i], newId)

(* The filter let the candidate through for a tag that neither the         *)
(* Feature, nor the Rule, nor the Scenario carries.                        *)
PassedOnExamplesTag(d) ==
  /\ d.passed
  /\ tagExpression # <<>>
  /\ tagExpression[1].kind = "tag"
  /\ tagExpression[1].tag
       \notin Range(gatherAllTagNames(sources[d.from].parse.feature[1], d.rule,
                                      d.scenarioCandidate))

(* C24: a candidate passes the filter on the tag of an Examples block only *)
(* if the row the candidate keeps is a row of that block; the tags of a    *)
(* block the expander emptied never let the candidate through.  Fails in   *)
(* the copy of src/featureParser.ts: the expander of                       *)
(* src/helpers/gherkinUtils.ts keeps the emptied blocks, tags and all, and *)
(* gatherAllTagNames there reads the tags of every block.                  *)
C24_ExamplesTagOfRetainedRowOnly ==
  \A i \in DOMAIN decisions :
    PassedOnExamplesTag(decisions[i])
      => \E b \in DOMAIN decisions[i].scenarioCandidate.examples :
           /\ tagExpression[1].tag
                \in Range(TagNames(decisions[i].scenarioCandidate.examples[b].tags))
           /\ Len(BodyRows(decisions[i].scenarioCandidate.examples[b])) > 0

(* An Outline of two blocks of different tags, filtered on the tag of the  *)
(* first: the variant of the first block's row went through, on that tag,  *)
(* and the variant of the second block's row did not.                      *)
C24_Witness ==
  /\ copy = "featureParser"
  /\ \E i, j \in DOMAIN decisions :
       /\ decisions[i].from = decisions[j].from
       /\ decisions[i].entry = decisions[j].entry
       /\ PassedOnExamplesTag(decisions[i])
       /\ ~decisions[j].passed
       /\ Len(collectScenarioEntries(sources[decisions[i].from].parse.feature[1])
                 [decisions[i].entry].scenario.examples) = 2

(* The copy of src/featureSplitter.ts lets no candidate through on the tag *)
(* of an Examples block at all.                                            *)
SplitterIgnoresExamplesTags ==
  copy = "featureSplitter"
    => \A i \in DOMAIN decisions : ~PassedOnExamplesTag(decisions[i])

(* The Examples blocks of every variant, as values. *)
BlocksOfVariants(variants) ==
  [v \in DOMAIN variants |->
     [b \in DOMAIN variants[v].examples |-> ExamplesValue(variants[v].examples[b])]]

(* What the other implementation of the Row Expander returns for the       *)
(* Scenario that was expanded.                                             *)
OtherExpansions ==
  IF impl = "splitter" THEN expandScenarioOutlineRowsUtils(parsed)
  ELSE expandScenarioOutlineRows(parsed)

(* C25: the two implementations of expandScenarioOutlineRows agree on      *)
(* every Scenario: as many variants from the one as from the other, and    *)
(* the variants at the same place have the same Examples blocks with the   *)
(* same body rows.  Fails where the two differ by C1, C2 and C3: a block   *)
(* of no row, a single row in total among several blocks, and the blocks   *)
(* other than the one of the retained row.                                 *)
C25_ExpandersAgree ==
  pc = "expanded"
    => /\ Len(expansions) = Len(OtherExpansions)
       /\ BlocksOfVariants(expansions) = BlocksOfVariants(OtherExpansions)

(* The two agree on a Scenario of no Examples block and on a Scenario      *)
(* whose only block has a row.                                             *)
ExpandersAgreeOnOneBlock ==
  (/\ pc = "expanded"
   /\ \/ Len(parsed.examples) = 0
      \/ (Len(parsed.examples) = 1 /\ Len(BodyRows(parsed.examples[1])) > 0))
    => /\ Len(expansions) = Len(OtherExpansions)
       /\ BlocksOfVariants(expansions) = BlocksOfVariants(OtherExpansions)

====
